---- MODULE Spec2Model ----
(***************************************************************************)
(* A model of mpnum's POVM layer: the local POVMs of mpnum/povm.py (X, Y,  *)
(* Z, Combined, PauliGen) and the matrix-product POVMs of                  *)
(* mpnum/povm/mppovm.py (MPPovm, MPPovmList).                              *)
(*                                                                         *)
(* Numbers are exact.  A complex number with rational parts is a record    *)
(* [re, im, den] standing for (re + i*im)/den, kept in lowest terms with   *)
(* den > 0, so that equal numbers are equal records.  An entry of a        *)
(* `vectors` table is a record [re, im, den, rad] standing for             *)
(* (re + i*im)/(den*sqrt(rad)): the tables of X and Y are divided by       *)
(* sqrt(2*(d-1)), which is irrational for most d.  Python's indices start  *)
(* at 0, sequences here at 1: row k of the code is row k+1 of the model.   *)
(***************************************************************************)
EXTENDS Integers, Sequences, FiniteSets, TLC

VARIABLES
    objs,        \* the local POVM instances constructed so far, oldest first
    clsPovms,    \* PauliGen.povms, the class attribute
    clsWeights,  \* PauliGen.weights, the class attribute
    mpp,         \* the MPPovm the structural operations are called on
    lst,         \* the MPPovmList that exists, or NoList
    call,        \* the last call: its operation, arguments and outcome
    gen          \* the generator object a lazy call returned, or NoGen

vars == <<objs, clsPovms, clsWeights, mpp, lst, call, gen>>

localVars == <<objs, clsPovms, clsWeights>>
structVars == <<mpp, lst>>

----------------------------------------------------------------------------
(* Bounds *)

\* largest local dimension d a local POVM is constructed for
MaxD == 4
\* largest number of local POVM instances alive at once
MaxObjs == 2

Dims == 2..MaxD

\* largest number of sites of the MPPovm the operations start from
MaxLen == 2
\* largest nr_sites passed to embed, block, repeat and pauli_mpps
MaxSites == 3
\* largest number of members of a list the model builds
MaxMembers == 4

\* largest number of sites of the state passed to expectations, probab, sample
MaxStateLen == 3
\* largest n_samples and largest n_group passed to sample
MaxSamples == 2
MaxGroup == 2
\* largest number of next() calls followed on an exhausted generator
MaxStops == 2
\* largest number of times one row is repeated in a samples array
MaxRepeat == 3
\* largest number of accesses to the maps of one local POVM
MaxAccesses == 4

\* the local Hilbert space dimensions, outcome dimensions and bond dimensions
\* the sites of that MPPovm are drawn from
HDims == {2, 3}
OutDims == {2}
BondDims == {1, 2}

----------------------------------------------------------------------------
(* Exact arithmetic *)

\* no MPPovmList exists
NoList == [exists |-> FALSE, mpps |-> <<>>]
\* the MPPovmList of these members
ListOf(mpps) == [exists |-> TRUE, mpps |-> mpps]
NoCall == [op |-> "none"]
\* no generator object is alive
NoGen == [kind |-> "none"]

Abs(x) == IF x < 0 THEN -x ELSE x

RECURSIVE GCD(_, _)
GCD(a, b) == IF b = 0 THEN a ELSE GCD(b, a % b)

\* (re + i*im)/den in lowest terms, den > 0
Cx(re, im, den) ==
    LET g == GCD(GCD(Abs(re), Abs(im)), den)
    IN  [re |-> re \div g, im |-> im \div g, den |-> den \div g]

CZero == Cx(0, 0, 1)
COne == Cx(1, 0, 1)

CAdd(a, b) ==
    Cx(a.re * b.den + b.re * a.den, a.im * b.den + b.im * a.den, a.den * b.den)

\* a * weight, the weight a rational [num, den]
CScale(a, w) == Cx(a.re * w.num, a.im * w.num, a.den * w.den)

\* an entry of a vectors table: (re + i*im)/(den*sqrt(rad))
VEntry(re, im, den, rad) == [re |-> re, im |-> im, den |-> den, rad |-> rad]

\* v * weight
VScale(v, w) ==
    LET g == GCD(GCD(Abs(v.re * w.num), Abs(v.im * w.num)), v.den * w.den)
    IN  VEntry((v.re * w.num) \div g, (v.im * w.num) \div g,
               (v.den * w.den) \div g, v.rad)

\* a * conj(b) for two entries under the same radical: the radical squares away
VMulConj(a, b) ==
    Cx(a.re * b.re + a.im * b.im, a.im * b.re - a.re * b.im,
       a.den * b.den * a.rad)

RECURSIVE SeqSum(_)
SeqSum(s) == IF s = <<>> THEN CZero ELSE CAdd(Head(s), SeqSum(Tail(s)))

RECURSIVE Concat(_)
Concat(ss) == IF ss = <<>> THEN <<>> ELSE Head(ss) \o Concat(Tail(ss))

----------------------------------------------------------------------------
(* mpnum/povm.py: the local POVMs *)

\* np.outer(vec, vec.conj()).reshape(d**2): entry a*d + b is vec[a]*conj(vec[b])
OuterFlat(vec, d) ==
    [m \in 1..(d * d) |->
        VMulConj(vec[((m - 1) \div d) + 1], vec[((m - 1) % d) + 1])]

\* Base._init_elements_from_vectors
InitElementsFromVectors(vectors, d) ==
    [k \in 1..Len(vectors) |-> OuterFlat(vectors[k], d)]

\* the pairs (i, j), i < j, in the order the nested loops of X and Y visit them
RECURSIVE PairLoop(_, _, _)
PairLoop(d, i, j) ==
    IF i >= d - 1 THEN <<>>
    ELSE IF j >= d THEN PairLoop(d, i + 1, i + 2)
    ELSE <<(<<i, j>>)>> \o PairLoop(d, i, j + 1)

\* PairRows dividing by sqrt(2*d) instead of sqrt(2*(d-1))
PairRowsNormD(d, pr, isY) ==
    LET row(sgn) ==
            [c \in 1..d |->
                IF c = pr[1] + 1 THEN VEntry(1, 0, 1, 2 * d)
                ELSE IF c = pr[2] + 1
                     THEN IF isY THEN VEntry(0, sgn, 1, 2 * d)
                                 ELSE VEntry(sgn, 0, 1, 2 * d)
                ELSE VEntry(0, 0, 1, 2 * d)]
    IN  <<row(1), row(-1)>>

\* the two rows the loop body of X (im = 0) or Y (im = 1) writes for a pair:
\* 1 at column i, then +-1 (X) or +-1j (Y) at column j, all over sqrt(2*(d-1))
PairRows(d, pr, isY) ==
    LET row(sgn) ==
            [c \in 1..d |->
                IF c = pr[1] + 1 THEN VEntry(1, 0, 1, 2 * (d - 1))
                ELSE IF c = pr[2] + 1
                     THEN IF isY THEN VEntry(0, sgn, 1, 2 * (d - 1))
                                 ELSE VEntry(sgn, 0, 1, 2 * (d - 1))
                ELSE VEntry(0, 0, 1, 2 * (d - 1))]
    IN  <<row(1), row(-1)>>

RECURSIVE PairVectors(_, _, _)
PairVectors(d, prs, isY) ==
    IF prs = <<>> THEN <<>>
    ELSE PairRows(d, Head(prs), isY) \o PairVectors(d, Tail(prs), isY)

\* X.__init__
XVectors(d) == PairVectors(d, PairLoop(d, 0, 1), FALSE)

\* Y.__init__
YVectors(d) == PairVectors(d, PairLoop(d, 0, 1), TRUE)

\* Z.__init__
ZVectors(d) ==
    [k \in 1..d |-> [c \in 1..d |->
        IF c = k THEN VEntry(1, 0, 1, 1) ELSE VEntry(0, 0, 1, 1)]]

KindVectors(kind, d) ==
    CASE kind = "X" -> XVectors(d)
      [] kind = "Y" -> YVectors(d)
      [] kind = "Z" -> ZVectors(d)

\* X(opts), Y(opts), Z(opts): the instance the constructor leaves
LocalPovm(kind, d) ==
    LET v == KindVectors(kind, d)
    IN  [kind |-> kind, d |-> d, vectors |-> v,
         elements |-> InitElementsFromVectors(v, d),
         povms |-> <<>>, weights |-> <<>>]

\* povm.vectors * weight
ScaleVectors(rows, w) ==
    [k \in 1..Len(rows) |-> [c \in 1..Len(rows[k]) |-> VScale(rows[k][c], w)]]

\* povm.elements * weight
ScaleElements(rows, w) ==
    [k \in 1..Len(rows) |-> [c \in 1..Len(rows[k]) |-> CScale(rows[k][c], w)]]

\* Combined._init_combined, with the povms and weights the attribute lookup
\* on self finds
InitCombined(d, povms, weights) ==
    LET made == [p \in 1..Len(povms) |-> LocalPovm(povms[p], d)]
        n == IF Len(povms) < Len(weights) THEN Len(povms) ELSE Len(weights)
    IN  [kind |-> "PauliGen", d |-> d,
         vectors |-> Concat([p \in 1..n |->
                        ScaleVectors(made[p].vectors, weights[p])]),
         elements |-> Concat([p \in 1..n |->
                        ScaleElements(made[p].elements, weights[p])]),
         povms |-> povms, weights |-> weights]

Third == [num |-> 1, den |-> 3]
Half == [num |-> 1, den |-> 2]

\* PauliGenInit setting the three weights for d = 2 without adding Z
PauliGenInitNoZ(d, cp, cw) ==
    IF d = 2 THEN InitCombined(d, cp, <<Third, Third, Third>>)
    ELSE InitCombined(d, cp, cw)

\* PauliGen.__init__: `self.povms += (Z,)` reads the class attribute and binds
\* the longer tuple on the instance; the class attribute is left as it was
PauliGenInit(d, cp, cw) ==
    IF d = 2 THEN InitCombined(d, cp \o <<"Z">>, <<Third, Third, Third>>)
    ELSE InitCombined(d, cp, cw)

\* the class attributes if `self.povms += (Z,)` changed the object the class
\* holds, as it would for a list
ClassAfterInitInPlace(d, cp, cw) ==
    [povms |-> IF d = 2 THEN cp \o <<"Z">> ELSE cp, weights |-> cw]

\* PauliGen.povms and PauliGen.weights after __init__: povms is a tuple, so
\* `+=` builds a new tuple and binds it on self, and weights is assigned on
\* self
ClassAfterInit(d, cp, cw) == [povms |-> cp, weights |-> cw]

----------------------------------------------------------------------------
(* The local POVM specification: instances are constructed one by one *)

InitLocal ==
    /\ objs = <<>>
    /\ clsPovms = <<"X", "Y">>
    /\ clsWeights = <<Half, Half>>
    /\ mpp = <<>> /\ lst = NoList /\ call = NoCall /\ gen = NoGen

NewX(d) ==
    /\ Len(objs) < MaxObjs
    /\ objs' = Append(objs, LocalPovm("X", d))
    /\ UNCHANGED <<clsPovms, clsWeights, structVars, call, gen>>

NewY(d) ==
    /\ Len(objs) < MaxObjs
    /\ objs' = Append(objs, LocalPovm("Y", d))
    /\ UNCHANGED <<clsPovms, clsWeights, structVars, call, gen>>

NewZ(d) ==
    /\ Len(objs) < MaxObjs
    /\ objs' = Append(objs, LocalPovm("Z", d))
    /\ UNCHANGED <<clsPovms, clsWeights, structVars, call, gen>>

NewPauliGen(d) ==
    /\ Len(objs) < MaxObjs
    /\ objs' = Append(objs, PauliGenInit(d, clsPovms, clsWeights))
    /\ clsPovms' = ClassAfterInit(d, clsPovms, clsWeights).povms
    /\ clsWeights' = ClassAfterInit(d, clsPovms, clsWeights).weights
    /\ UNCHANGED <<structVars, call, gen>>

NextLocal ==
    \/ \E d \in Dims : NewX(d)
    \/ \E d \in Dims : NewY(d)
    \/ \E d \in Dims : NewZ(d)
    \/ \E d \in Dims : NewPauliGen(d)

----------------------------------------------------------------------------
(* Claims about the local POVMs *)

\* the d x d identity, flattened like an element
IdentityFlat(d) ==
    [m \in 1..(d * d) |->
        IF (m - 1) \div d = (m - 1) % d THEN COne ELSE CZero]

\* the entrywise sum of an element table
ElemSum(elements, d) ==
    [m \in 1..(d * d) |->
        SeqSum([k \in 1..Len(elements) |-> elements[k][m]])]

\* C1: for every d >= 2 the elements of X(d), of Y(d) and of Z(d) sum to the
\* d x d identity; X and Y have d*(d-1) elements and Z has d.
C1_XYZSumToIdentity ==
    \A k \in 1..Len(objs) :
        LET o == objs[k] IN
        /\ o.kind \in {"X", "Y"} =>
              /\ Len(o.elements) = o.d * (o.d - 1)
              /\ ElemSum(o.elements, o.d) = IdentityFlat(o.d)
        /\ o.kind = "Z" =>
              /\ Len(o.elements) = o.d
              /\ ElemSum(o.elements, o.d) = IdentityFlat(o.d)

C1_Witness ==
    /\ Len(objs) = 2
    /\ objs[1].kind = "Y" /\ objs[1].d = 3
    /\ objs[2].kind = "Z" /\ objs[2].d = 2

\* C2: the elements of PauliGen(d) are the elements of X, Y and Z, each times
\* 1/3, one table after the other, when d = 2, and those of X and Y, each
\* times 1/2, when d > 2; either way they sum to the identity.
C2_PauliGenElements ==
    \A k \in 1..Len(objs) :
        LET o == objs[k]
            part(kind, num, den) ==
                LET t == InitElementsFromVectors(KindVectors(kind, o.d), o.d)
                IN  [r \in 1..Len(t) |-> [m \in 1..(o.d * o.d) |->
                        Cx(t[r][m].re * num, t[r][m].im * num, t[r][m].den * den)]]
        IN  o.kind = "PauliGen" =>
              /\ o.d = 2 => o.elements =
                    part("X", 1, 3) \o part("Y", 1, 3) \o part("Z", 1, 3)
              /\ o.d > 2 => o.elements = part("X", 1, 2) \o part("Y", 1, 2)
              /\ ElemSum(o.elements, o.d) = IdentityFlat(o.d)

C2_Witness ==
    /\ Len(objs) = 2
    /\ objs[1].kind = "PauliGen" /\ objs[1].d = 2 /\ Len(objs[1].elements) = 6
    /\ objs[2].kind = "PauliGen" /\ objs[2].d = 3 /\ Len(objs[2].elements) = 12

\* C25: for every local POVM that exposes vectors, Combined and PauliGen
\* included, element k is the flattened outer product of vector k with its
\* own conjugate
C25_ElementsAreOuterProducts ==
    \A k \in 1..Len(objs) :
       objs[k].elements = InitElementsFromVectors(objs[k].vectors, objs[k].d)

\* the elements of X(d) or Y(d), each times 1/2
HalfElements(kind, d) ==
    [r \in 1..Len(InitElementsFromVectors(KindVectors(kind, d), d)) |->
        [m \in 1..(d * d) |->
            CScale(InitElementsFromVectors(KindVectors(kind, d), d)[r][m], Half)]]

\* C30: constructing PauliGen for d = 2 never changes what other PauliGen
\* instances contain: after any sequence of constructions the class-level
\* povms and weights are still (X, Y) and (1/2, 1/2), and every instance
\* built for d > 2 holds the X and Y elements with weight 1/2 each
C30_ClassAttributesKept ==
    /\ clsPovms = <<"X", "Y">>
    /\ clsWeights = <<Half, Half>>
    /\ \A k \in 1..Len(objs) :
          (objs[k].kind = "PauliGen" /\ objs[k].d > 2) =>
             /\ objs[k].povms = <<"X", "Y">>
             /\ objs[k].weights = <<Half, Half>>
             /\ objs[k].elements = HalfElements("X", objs[k].d)
                                   \o HalfElements("Y", objs[k].d)

\* a PauliGen for d > 2 constructed after a PauliGen for d = 2
C30_Witness ==
    /\ Len(objs) = 2
    /\ objs[1].kind = "PauliGen" /\ objs[1].d = 2
    /\ objs[1].povms = <<"X", "Y", "Z">>
    /\ objs[2].kind = "PauliGen" /\ objs[2].d > 2
    /\ objs[2].povms = <<"X", "Y">>

----------------------------------------------------------------------------
(* mpnum/povm/mppovm.py: MPPovm and MPPovmList, their structure            *)
(*                                                                         *)
(* An MPPovm is the sequence of its local tensors.  A local tensor is a    *)
(* record [t, out, hd, bl, br]: t names its content, out is the dimension  *)
(* of the outcome leg, hd that of the two Hilbert space legs (MPPovm's     *)
(* constructor asserts they agree), bl and br are the left and right bond  *)
(* dimensions.  The first bl and the last br of a chain are 1.  The names  *)
(* are pairs: <<"self", i>> for site i of the MPPovm the model starts      *)
(* from, <<"eye", 0>> for the identity, <<"X", 0>> for a local POVM.       *)

Site(t, out, hd, bl, br) == [t |-> t, out |-> out, hd |-> hd, bl |-> bl, br |-> br]

Ok(v) == [outcome |-> "ok", value |-> v]
Raise(e) == [outcome |-> e, value |-> <<>>]

\* [x] * n of Python: no copies when n <= 0
Times(x, n) == [i \in 1..n |-> x]

\* MPPovm.outdims, MPPovm.hdims, MPArray.bdims
Outdims(m) == [i \in 1..Len(m) |-> m[i].out]
Hdims(m) == [i \in 1..Len(m) |-> m[i].hd]
Bdims(m) == [i \in 1..(Len(m) - 1) |-> m[i].br]

\* mp.outer: the factors' local tensors one after the other; the bond between
\* two factors is the trivial one both already end with
Outer(factors) == Concat(factors)

\* MPPovm.eye
Eye(local_dims) ==
    [i \in 1..Len(local_dims) |-> Site(<<"eye", 0>>, 1, local_dims[i], 1, 1)]

\* Embed leaving one site too few on the right
EmbedShortRight(self, nr_sites, startsite, local_dim) ==
    Outer(<<Eye(Times(local_dim, startsite)), self,
            Eye(Times(local_dim, nr_sites - Len(self) - startsite - 1))>>)

\* MPPovm.embed
Embed(self, nr_sites, startsite, local_dim) ==
    LET left == Eye(Times(local_dim, startsite))
        n_right == nr_sites - Len(self) - startsite
        right == Eye(Times(local_dim, n_right))
    IN  Outer(<<left, self, right>>)

\* MPPovmListInit without the assertion on the members' lengths
MPPovmListInitUnchecked(mppseq) == Ok(mppseq)

\* MPPovmList.__init__
MPPovmListInit(mppseq) ==
    IF \A i \in 1..Len(mppseq) : Len(mppseq[i]) = Len(mppseq[1])
    THEN Ok(mppseq)
    ELSE Raise("AssertionError")

\* MPPovm.block
Block(self, nr_sites) ==
    LET local_dim == Hdims(self)[1]
    IN  IF \A i \in 1..Len(self) : Hdims(self)[i] = local_dim
        THEN MPPovmListInit(
                 [s \in 1..(nr_sites - Len(self) + 1) |->
                     Embed(self, nr_sites, s - 1, local_dim)])
        ELSE Raise("AssertionError")

\* the first n local tensors of a chain: self[:n]
Prefix(self, n) == SubSeq(self, 1, n)

\* Repeat cutting self without looking at the bond it cuts
RepeatUnchecked(self, nr_sites) ==
    LET n_repeat == nr_sites \div Len(self)
        n_last == nr_sites % Len(self)
    IN  Ok(Outer(Times(self, n_repeat)
                 \o (IF n_last > 0 THEN <<Prefix(self, n_last)>> ELSE <<>>)))

\* Repeat forgetting the partial copy at the end
RepeatWholeOnly(self, nr_sites) ==
    LET n_repeat == nr_sites \div Len(self)
        n_last == nr_sites % Len(self)
    IN  IF n_last > 0 /\ Bdims(self)[n_last] # 1
        THEN Raise("AssertionError")
        ELSE Ok(Outer(Times(self, n_repeat)))

\* MPPovm.repeat; bdims[n_last - 1] of the code is Bdims(self)[n_last] here
Repeat(self, nr_sites) ==
    LET n_repeat == nr_sites \div Len(self)
        n_last == nr_sites % Len(self)
    IN  IF n_last > 0 /\ Bdims(self)[n_last] # 1
        THEN Raise("AssertionError")
        ELSE Ok(Outer(Times(self, n_repeat)
                      \o (IF n_last > 0 THEN <<Prefix(self, n_last)>> ELSE <<>>)))

\* the first of the results that is an error, if any
FirstError(rs) ==
    LET bad == {i \in 1..Len(rs) : rs[i].outcome # "ok"}
    IN  IF bad = {} THEN "ok"
        ELSE rs[CHOOSE i \in bad : \A j \in bad : i <= j].outcome

Min(S) == CHOOSE x \in S : \A y \in S : x <= y

\* it.chain(*zip(*rows)): the rows' first entries, then their second entries,
\* ..., as far as the shortest row goes
ChainZip(rows) ==
    IF rows = <<>> THEN <<>>
    ELSE LET M == Len(rows)
             P == Min({Len(rows[m]) : m \in 1..M})
         IN  [k \in 1..(P * M) |-> rows[((k - 1) % M) + 1][((k - 1) \div M) + 1]]

\* ListBlock chaining the members' blocks one member after the other
ListBlockByMember(mpps, nr_sites) ==
    LET blocks == [m \in 1..Len(mpps) |-> Block(mpps[m], nr_sites)]
    IN  IF FirstError(blocks) # "ok" THEN Raise(FirstError(blocks))
        ELSE MPPovmListInit(Concat([m \in 1..Len(mpps) |-> blocks[m].value]))

\* MPPovmList.block
ListBlock(mpps, nr_sites) ==
    LET blocks == [m \in 1..Len(mpps) |-> Block(mpps[m], nr_sites)]
    IN  IF FirstError(blocks) # "ok" THEN Raise(FirstError(blocks))
        ELSE MPPovmListInit(
                 ChainZip([m \in 1..Len(mpps) |-> blocks[m].value]))

\* MPPovmList.repeat
ListRepeat(mpps, nr_sites) ==
    LET reps == [m \in 1..Len(mpps) |-> Repeat(mpps[m], nr_sites)]
    IN  IF FirstError(reps) # "ok" THEN Raise(FirstError(reps))
        ELSE MPPovmListInit([m \in 1..Len(mpps) |-> reps[m].value])

\* mpp.pauli_parts(local_dim), each part through MPPovm.from_local_povm(x, 1):
\* one site per local POVM, X and Y, and Z when local_dim = 2, its outcome
\* dimension the number of elements of that POVM
PauliParts(local_dim) ==
    LET part(kind) ==
            <<Site(<<kind, 0>>, Len(KindVectors(kind, local_dim)), local_dim, 1, 1)>>
    IN  IF local_dim = 2 THEN <<part("X"), part("Y"), part("Z")>>
        ELSE <<part("X"), part("Y")>>

\* it.product(parts, repeat=n): the last position runs fastest
RECURSIVE Product(_, _)
Product(parts, n) ==
    IF n = 0 THEN <<(<<>>)>>
    ELSE LET rest == Product(parts, n - 1)
         IN  [k \in 1..(Len(parts) * Len(rest)) |->
                 <<parts[((k - 1) \div Len(rest)) + 1]>>
                 \o rest[((k - 1) % Len(rest)) + 1]]

\* pauli_mpps
PauliMpps(nr_sites, local_dim) ==
    LET prod == Product(PauliParts(local_dim), nr_sites)
    IN  MPPovmListInit([k \in 1..Len(prod) |-> Outer(prod[k])])

----------------------------------------------------------------------------
(* The structural specification: one MPPovm, and the list that exists *)

\* the chains of n sites whose bonds fit: the first bl and the last br are 1
RECURSIVE Chains(_, _)
Chains(n, bl) ==
    IF n = 1
    THEN {<<Site(<<"self", 1>>, o, h, bl, 1)>> : o \in OutDims, h \in HDims}
    ELSE UNION {
            {<<Site(<<"self", n>>, o, h, bl, b)>> \o c : c \in Chains(n - 1, b)}
            : o \in OutDims, h \in HDims, b \in BondDims}

\* site i of a chain is named <<"self", i>>
Renumber(c) == [i \in 1..Len(c) |-> [c[i] EXCEPT !.t = <<"self", i>>]]

BasePovms == UNION {{Renumber(c) : c \in Chains(n, 1)} : n \in 1..MaxLen}

InitStruct ==
    /\ mpp \in BasePovms
    /\ lst = NoList
    /\ call = NoCall
    /\ gen = NoGen
    /\ objs = <<>> /\ clsPovms = <<"X", "Y">> /\ clsWeights = <<Half, Half>>

\* a call on a list leaves the list it returns, if it returns one
Returned(op, self, n, r) ==
    /\ call' = [op |-> op, self |-> self, n |-> n,
                outcome |-> r.outcome, result |-> r.value]
    /\ lst' = IF r.outcome = "ok" THEN ListOf(r.value) ELSE lst
    /\ UNCHANGED <<mpp, gen, localVars>>

\* a call on a list leaves the list it returns, if it returns one, and the
\* model follows it while the list has at most MaxMembers members
Returns(op, self, n, r) ==
    /\ r.outcome = "ok" => Len(r.value) <= MaxMembers
    /\ Returned(op, self, n, r)

\* the MPPovms a list is constructed from directly: the MPPovm, and the
\* identity on one and on two sites
Pool ==
    LET h == Hdims(mpp)[1] IN {mpp, Eye(<<h>>), Eye(<<h, h>>)}

NewList(a, b) ==
    Returns("MPPovmList", <<a, b>>, 0, MPPovmListInit(<<a, b>>))

MPPovmBlock(n) ==
    Returns("MPPovm.block", mpp, n, Block(mpp, n))

MPPovmListBlock(n) ==
    /\ lst.exists
    /\ Returns("MPPovmList.block", lst.mpps, n, ListBlock(lst.mpps, n))

MPPovmListRepeat(n) ==
    /\ lst.exists
    /\ Returns("MPPovmList.repeat", lst.mpps, n, ListRepeat(lst.mpps, n))

CallPauliMpps(n, d) ==
    /\ Len(PauliParts(d)) ^ n <= MaxMembers
    /\ Returns("pauli_mpps", <<d>>, n, PauliMpps(n, d))

\* MPPovm.repeat returns an MPPovm: no list changes
MPPovmRepeat(n) ==
    LET r == Repeat(mpp, n)
    IN  /\ call' = [op |-> "MPPovm.repeat", self |-> mpp, n |-> n,
                    outcome |-> r.outcome, result |-> r.value]
        /\ UNCHANGED <<mpp, lst, gen, localVars>>

NextStruct ==
    \/ \E a \in Pool, b \in Pool : NewList(a, b)
    \/ \E n \in 1..MaxSites : MPPovmBlock(n)
    \/ \E n \in 1..MaxSites : MPPovmListBlock(n)
    \/ \E n \in 1..MaxSites : MPPovmListRepeat(n)
    \/ \E n \in 1..MaxSites, d \in HDims : CallPauliMpps(n, d)
    \/ \E n \in 1..MaxSites : MPPovmRepeat(n)

----------------------------------------------------------------------------
(* Claims about the structure of MPPovm and MPPovmList *)

Uniform(m) == \A i \in 1..Len(m) : m[i].hd = m[1].hd

\* m on sites p+1 .. p+Len(m) of a chain of n sites, written site by site
Placed(m, n, p, r) ==
    /\ Len(r) = n
    /\ \A j \in 1..n :
          IF p < j /\ j <= p + Len(m)
          THEN r[j] = m[j - p]
          ELSE r[j].out = 1 /\ r[j].t = <<"eye", 0>> /\ r[j].hd = m[1].hd

\* C3: block(nr_sites) of an MPPovm of length L with one Hilbert space
\* dimension, nr_sites >= L, returns a list of exactly nr_sites - L + 1
\* members; member i has nr_sites sites, carries self on sites [i, i+L) and
\* the identity with outcome dimension 1 on every other site.
C3_BlockSlidingWindow ==
    (call.op = "MPPovm.block" /\ Uniform(call.self) /\ call.n >= Len(call.self))
    => /\ call.outcome = "ok"
       /\ Len(call.result) = call.n - Len(call.self) + 1
       /\ \A i \in 0..(call.n - Len(call.self)) :
             Placed(call.self, call.n, i, call.result[i + 1])

C3_Witness ==
    /\ call.op = "MPPovm.block" /\ call.outcome = "ok"
    /\ Len(call.self) = 2 /\ call.n = 3 /\ Len(call.result) = 2

\* C4: MPPovmList.block(nr_sites) on a list of M members returns the
\* embeddings grouped by position: entry p*M + m is member m embedded at
\* start site p, for p = 0..nr_sites-L and m = 0..M-1.
C4_ListBlockByPosition ==
    (call.op = "MPPovmList.block" /\ \A m \in 1..Len(call.self) : Uniform(call.self[m]))
    => LET M == Len(call.self)
           L == IF M = 0 THEN 0 ELSE Len(call.self[1])
           P == IF call.n - L + 1 > 0 /\ M > 0 THEN call.n - L + 1 ELSE 0
       IN  /\ call.outcome = "ok"
           /\ Len(call.result) = P * M
           /\ \A p \in 0..(P - 1), m \in 0..(M - 1) :
                 Placed(call.self[m + 1], call.n, p, call.result[p * M + m + 1])

C4_Witness ==
    /\ call.op = "MPPovmList.block" /\ call.outcome = "ok"
    /\ Len(call.self) = 2 /\ call.self[1] # call.self[2]
    /\ Len(call.result) = 4

\* C5: repeat(nr_sites) of an MPPovm of length L, nr_sites = q*L + r with
\* 0 <= r < L and bond dimension 1 at the cut when r > 0, returns an MPPovm
\* of exactly nr_sites sites whose site j is self's site j mod L, with bond
\* dimension 1 at every seam.
C5_RepeatTiles ==
    LET L == Len(call.self)
        r == call.n % L
    IN  (call.op = "MPPovm.repeat" /\ (r = 0 \/ call.self[r].br = 1))
        => /\ call.outcome = "ok"
           /\ Len(call.result) = call.n
           /\ \A j \in 1..call.n : call.result[j] = call.self[((j - 1) % L) + 1]
           /\ \A j \in 1..(call.n - 1) :
                 j % L = 0 => call.result[j].br = 1 /\ call.result[j + 1].bl = 1

C5_Witness ==
    /\ call.op = "MPPovm.repeat" /\ call.outcome = "ok"
    /\ Len(call.self) = 2 /\ call.n = 3 /\ Len(call.result) = 3
    /\ call.result[3] = call.self[1]

\* C6: repeat(nr_sites) with nr_sites not a multiple of len(self) fails and
\* returns nothing whenever the bond of self between sites r-1 and r,
\* r = nr_sites mod len(self), is not 1.
C6_RepeatRefusesEntangledCut ==
    LET L == Len(call.self)
        r == call.n % L
    IN  (call.op = "MPPovm.repeat" /\ r > 0 /\ call.self[r].br # 1)
        => call.outcome = "AssertionError" /\ call.result = <<>>

C6_Witness ==
    /\ call.op = "MPPovm.repeat" /\ call.outcome = "AssertionError"
    /\ Len(call.self) = 2 /\ call.n = 3 /\ call.self[1].br = 2

\* C7: the members of every MPPovmList that exists have the same number of
\* sites, however the list was made; constructing a list from members of
\* different lengths fails and yields no list.
C7_ListMembersSameLength ==
    /\ lst.exists =>
          \A i, j \in 1..Len(lst.mpps) : Len(lst.mpps[i]) = Len(lst.mpps[j])
    /\ (call.op = "MPPovmList" /\ Len(call.self[1]) # Len(call.self[2]))
       => call.outcome = "AssertionError" /\ call.result = <<>>
    /\ (call.op \in {"MPPovmList", "MPPovm.block", "MPPovmList.block",
                     "MPPovmList.repeat", "pauli_mpps"} /\ call.outcome = "ok")
       => lst = ListOf(call.result)

C7_Witness ==
    /\ call.op = "MPPovmList" /\ call.outcome = "AssertionError"
    /\ Len(call.self[1]) # Len(call.self[2])
    /\ lst.exists /\ Len(lst.mpps) >= 2

----------------------------------------------------------------------------
(* mpnum/povm/mppovm.py: expectations, probab and sample                   *)
(*                                                                         *)
(* A state is the sequence of its sites' numbers of physical legs.  A      *)
(* probability tensor is named by the window of sites it belongs to and    *)
(* the mode it was computed in.  expectations and MPPovmList.sample are    *)
(* generator functions: the call runs none of the body and returns a       *)
(* generator object, and each next() runs the body to its next yield, to   *)
(* its end (StopIteration) or to an exception, after which the generator   *)
(* is finished for good.  A generator record keeps what it yielded so far  *)
(* (seq), how many tensors it computed (made) and random numbers it drew   *)
(* (draws), the exception that ended it (err) and how often next() has     *)
(* found it exhausted (stops).                                             *)

Modes == {"mps", "mpdo", "pmps"}
Methods == {"cond", "direct"}

\* the largest outcome dimension a sample's uint8 entry can hold: 255 means
\* "data missing"
OutLimit == 255

\* AutoMode choosing 'mpdo' whenever the sites do not all have one leg
AutoModeFallback(plegs, mode) ==
    IF mode = "auto"
    THEN IF \A i \in 1..Len(plegs) : plegs[i] = 1 THEN "mps" ELSE "mpdo"
    ELSE mode

\* MPPovm.expectations: what `mode` is after the 'auto' block
AutoMode(plegs, mode) ==
    IF mode = "auto"
    THEN IF \A i \in 1..Len(plegs) : plegs[i] = 1 THEN "mps"
         ELSE IF \A i \in 1..Len(plegs) : plegs[i] = 2 THEN "mpdo"
         ELSE mode
    ELSE mode

\* mpsmpo.reductions_mps_as_pmps, reductions_mpo, reductions_pmps: the
\* windows of `width` neighbouring sites, leftmost first, site numbers from 0
Reductions(nsites, width) ==
    [n \in 1..(nsites - width + 1) |-> [lo |-> n - 1, hi |-> n - 1 + width]]

\* mp.dot(pmap, rho_red.ravel()) for one reduction
Tensor(red, mode) == [lo |-> red.lo, hi |-> red.hi, mode |-> mode]

\* the generator object expectations(mpa, mode) returns
ExpectationsGen(L, plegs, mode) ==
    [kind |-> "expectations", pc |-> "created", L |-> L, plegs |-> plegs,
     mode |-> mode, seq |-> <<>>, made |-> 0, draws |-> 0, stops |-> 0,
     err |-> "none"]

Step(g, outcome, value) == [gen |-> g, outcome |-> outcome, value |-> value]

\* ExpectationsNext starting over when its loop is exhausted
ExpectationsNextRestarts(g) ==
    IF g.pc = "created" \/ (g.pc = "finished" /\ g.seq # <<>>)
    THEN IF ~(g.L <= Len(g.plegs))
         THEN Step([g EXCEPT !.pc = "finished", !.err = "AssertionError"],
                   "AssertionError", <<>>)
         ELSE IF AutoMode(g.plegs, g.mode) \notin Modes
         THEN Step([g EXCEPT !.pc = "finished", !.err = "ValueError"],
                   "ValueError", <<>>)
         ELSE LET t == Tensor(Reductions(Len(g.plegs), g.L)[1],
                              AutoMode(g.plegs, g.mode))
              IN  Step([g EXCEPT !.pc = "suspended", !.seq = Append(@, t),
                                 !.made = @ + 1], "ok", t)
    ELSE IF g.pc = "suspended"
    THEN LET reds == Reductions(Len(g.plegs), g.L)
         IN  IF Len(g.seq) < Len(reds)
             THEN LET t == Tensor(reds[Len(g.seq) + 1], AutoMode(g.plegs, g.mode))
                  IN  Step([g EXCEPT !.seq = Append(@, t), !.made = @ + 1], "ok", t)
             ELSE Step([g EXCEPT !.pc = "finished"], "StopIteration", <<>>)
    ELSE Step(g, "StopIteration", <<>>)

\* one next() on the generator of MPPovm.expectations
ExpectationsNext(g) ==
    IF g.pc = "created"
    THEN IF ~(g.L <= Len(g.plegs))
         THEN Step([g EXCEPT !.pc = "finished", !.err = "AssertionError"],
                   "AssertionError", <<>>)
         ELSE IF AutoMode(g.plegs, g.mode) \notin Modes
         THEN Step([g EXCEPT !.pc = "finished", !.err = "ValueError"],
                   "ValueError", <<>>)
         ELSE LET t == Tensor(Reductions(Len(g.plegs), g.L)[1],
                              AutoMode(g.plegs, g.mode))
              IN  Step([g EXCEPT !.pc = "suspended", !.seq = Append(@, t),
                                 !.made = @ + 1], "ok", t)
    ELSE IF g.pc = "suspended"
    THEN LET reds == Reductions(Len(g.plegs), g.L)
         IN  IF Len(g.seq) < Len(reds)
             THEN LET t == Tensor(reds[Len(g.seq) + 1], AutoMode(g.plegs, g.mode))
                  IN  Step([g EXCEPT !.seq = Append(@, t), !.made = @ + 1], "ok", t)
             ELSE Step([g EXCEPT !.pc = "finished"], "StopIteration", <<>>)
    ELSE Step(g, "StopIteration", <<>>)

\* what a call leaves: its outcome, its value, the probability tensors it
\* computed and the random numbers it drew
Done(outcome, value, made, draws) ==
    [outcome |-> outcome, value |-> value, made |-> made, draws |-> draws]

\* MPPovm.probab
Probab(L, plegs, mode) ==
    IF L # Len(plegs) THEN Done("AssertionError", <<>>, 0, 0)
    ELSE LET r == ExpectationsNext(ExpectationsGen(L, plegs, mode))
         IN  Done(r.outcome, r.value, r.gen.made, 0)

\* MPPovm.nsoutdims
Nsoutdims(outs) == SelectSeq(outs, LAMBDA o : o > 1)

\* the number of random numbers _sample_cond draws: per sample one for every
\* group of n_group measured sites, range(0, n_sites, n_group)
CondDraws(k, n_samples, n_group) ==
    n_samples * ((k + n_group - 1) \div n_group)

\* Sample treating every method other than 'direct' as 'cond'
SampleFallback(L, outs, plegs, mode, method, n_samples, n_group, sumOk) ==
    LET p == Probab(L, plegs, mode)
        k == Len(Nsoutdims(outs))
        shape == [rows |-> n_samples, cols |-> k]
    IN  IF L # Len(plegs) THEN Done("AssertionError", <<>>, 0, 0)
        ELSE IF p.outcome # "ok" THEN p
        ELSE IF ~sumOk THEN Done("AssertionError", <<>>, p.made, 0)
        ELSE IF \E i \in 1..Len(outs) : outs[i] > OutLimit
        THEN Done("AssertionError", <<>>, p.made, 0)
        ELSE IF method = "direct" THEN Done("ok", shape, p.made, n_samples)
        ELSE Done("ok", shape, p.made, CondDraws(k, n_samples, n_group))

\* MPPovm.sample; sumOk: the probabilities of the state sum to one within eps
Sample(L, outs, plegs, mode, method, n_samples, n_group, sumOk) ==
    LET p == Probab(L, plegs, mode)
        k == Len(Nsoutdims(outs))
        shape == [rows |-> n_samples, cols |-> k]
    IN  IF L # Len(plegs) THEN Done("AssertionError", <<>>, 0, 0)
        ELSE IF p.outcome # "ok" THEN p
        ELSE IF ~sumOk THEN Done("AssertionError", <<>>, p.made, 0)
        ELSE IF \E i \in 1..Len(outs) : outs[i] > OutLimit
        THEN Done("AssertionError", <<>>, p.made, 0)
        ELSE IF method = "cond"
        THEN Done("ok", shape, p.made, CondDraws(k, n_samples, n_group))
        ELSE IF method = "direct" THEN Done("ok", shape, p.made, n_samples)
        ELSE Done("ValueError", <<>>, p.made, 0)

\* the generator object MPPovmList.sample returns; the list has M members
ListSampleGen(M, L, outs, plegs, mode, method, n_samples, n_group, sumOk) ==
    [kind |-> "list.sample", pc |-> "created", M |-> M, L |-> L, outs |-> outs,
     plegs |-> plegs, mode |-> mode, method |-> method, n_samples |-> n_samples,
     n_group |-> n_group, sumOk |-> sumOk,
     seq |-> <<>>, made |-> 0, draws |-> 0, stops |-> 0, err |-> "none"]

\* one next() on the generator of MPPovmList.sample
ListSampleNext(g) ==
    IF g.pc \in {"created", "suspended"}
    THEN IF Len(g.seq) < g.M
         THEN LET r == Sample(g.L, g.outs, g.plegs, g.mode, g.method,
                              g.n_samples, g.n_group, g.sumOk)
                  h == [g EXCEPT !.made = @ + r.made, !.draws = @ + r.draws]
              IN  IF r.outcome = "ok"
                  THEN Step([h EXCEPT !.pc = "suspended",
                                      !.seq = Append(@, r.value)], "ok", r.value)
                  ELSE Step([h EXCEPT !.pc = "finished", !.err = r.outcome],
                            r.outcome, <<>>)
         ELSE Step([g EXCEPT !.pc = "finished"], "StopIteration", <<>>)
    ELSE Step(g, "StopIteration", <<>>)

----------------------------------------------------------------------------
(* The measurement specification: one call of expectations, probab or      *)
(* sample with arguments of the model's choice, and then next() on the     *)
(* generator the call returned, if it returned one                         *)

\* the states: every site with 1, 2 or 3 physical legs
RECURSIVE LegSeqs(_)
LegSeqs(n) ==
    IF n = 0 THEN {<<>>}
    ELSE {<<c>> \o t : c \in {1, 2, 3}, t \in LegSeqs(n - 1)}

States == UNION {LegSeqs(n) : n \in 1..MaxStateLen}

\* the states all of whose sites have the same number of legs
PlainStates == {Times(c, n) : c \in {1, 2, 3}, n \in 1..MaxStateLen}

\* a mode named outright is passed with a state in that form; 'auto' and a
\* string that is no mode come with any state
Suits(plegs, mode) ==
    /\ mode = "mps" => \A i \in 1..Len(plegs) : plegs[i] = 1
    /\ mode \in {"mpdo", "pmps"} => \A i \in 1..Len(plegs) : plegs[i] = 2

ModeArgs == Modes \cup {"auto", "nomode"}
MethodArgs == Methods \cup {"nomethod"}

\* the outcome dimensions of an MPPovm of L sites: at least one site measured
RECURSIVE OutSeqs(_)
OutSeqs(n) ==
    IF n = 0 THEN {<<>>}
    ELSE {<<o>> \o t : o \in {1, 2, OutLimit + 1}, t \in OutSeqs(n - 1)}

OutArgs(L) == {o \in OutSeqs(L) : Nsoutdims(o) # <<>>}

InitMeasure ==
    /\ gen = NoGen
    /\ call = NoCall
    /\ mpp = <<>> /\ lst = NoList
    /\ objs = <<>> /\ clsPovms = <<"X", "Y">> /\ clsWeights = <<Half, Half>>

CallExpectations(L, plegs, mode) ==
    /\ Suits(plegs, mode)
    /\ gen' = ExpectationsGen(L, plegs, mode)
    /\ call' = [op |-> "expectations", L |-> L, plegs |-> plegs, mode |-> mode,
                method |-> "none", res |-> Done("ok", <<"generator">>, 0, 0)]
    /\ UNCHANGED <<structVars, localVars>>

NextOfExpectations ==
    /\ gen.kind = "expectations"
    /\ gen.stops < MaxStops
    /\ LET r == ExpectationsNext(gen)
       IN  /\ gen' = [r.gen EXCEPT
                        !.stops = IF r.outcome = "StopIteration" THEN @ + 1 ELSE @]
           /\ call' = [op |-> "next", L |-> gen.L, plegs |-> gen.plegs,
                       mode |-> gen.mode, method |-> "none",
                       res |-> Done(r.outcome, r.value,
                                    r.gen.made - gen.made, 0)]
    /\ UNCHANGED <<structVars, localVars>>

CallProbab(L, plegs, mode) ==
    /\ Suits(plegs, mode)
    /\ gen' = NoGen
    /\ call' = [op |-> "probab", L |-> L, plegs |-> plegs, mode |-> mode,
                method |-> "none", res |-> Probab(L, plegs, mode)]
    /\ UNCHANGED <<structVars, localVars>>

CallSample(outs, plegs, mode, method, n_samples, n_group, sumOk) ==
    /\ Suits(plegs, mode)
    /\ gen' = NoGen
    /\ call' = [op |-> "sample", L |-> Len(outs), plegs |-> plegs, mode |-> mode,
                method |-> method, outs |-> outs, sumOk |-> sumOk,
                res |-> Sample(Len(outs), outs, plegs, mode, method,
                               n_samples, n_group, sumOk)]
    /\ UNCHANGED <<structVars, localVars>>

CallListSample(M, outs, plegs, mode, method, n_samples, sumOk) ==
    /\ Suits(plegs, mode)
    /\ gen' = ListSampleGen(M, Len(outs), outs, plegs, mode, method,
                            n_samples, 1, sumOk)
    /\ call' = [op |-> "list.sample", L |-> Len(outs), plegs |-> plegs,
                mode |-> mode, method |-> method,
                res |-> Done("ok", <<"generator">>, 0, 0)]
    /\ UNCHANGED <<structVars, localVars>>

NextOfListSample ==
    /\ gen.kind = "list.sample"
    /\ gen.stops < MaxStops
    /\ LET r == ListSampleNext(gen)
       IN  /\ gen' = [r.gen EXCEPT
                        !.stops = IF r.outcome = "StopIteration" THEN @ + 1 ELSE @]
           /\ call' = [op |-> "list.next", L |-> gen.L, plegs |-> gen.plegs,
                       mode |-> gen.mode, method |-> gen.method,
                       res |-> Done(r.outcome, r.value, r.gen.made - gen.made,
                                    r.gen.draws - gen.draws)]
    /\ UNCHANGED <<structVars, localVars>>

\* a call is made with arguments of the model's choice
Idle == call = NoCall

NextMeasure ==
    \/ /\ Idle
       /\ \E L \in 1..MaxLen, plegs \in States, mode \in ModeArgs :
             CallExpectations(L, plegs, mode)
    \/ NextOfExpectations
    \/ /\ Idle
       /\ \E L \in 1..MaxLen, plegs \in States, mode \in ModeArgs :
             CallProbab(L, plegs, mode)
    \/ /\ Idle
       /\ \E L \in 1..MaxLen, plegs \in PlainStates, mode \in ModeArgs,
             method \in MethodArgs, n_samples \in 1..MaxSamples,
             n_group \in 1..MaxGroup, sumOk \in BOOLEAN :
             \E outs \in OutArgs(L) :
                CallSample(outs, plegs, mode, method, n_samples, n_group, sumOk)
    \/ /\ Idle
       /\ \E M \in 0..2, L \in 1..MaxLen, mode \in ModeArgs,
             method \in MethodArgs, n_samples \in 1..MaxSamples,
             sumOk \in BOOLEAN :
             \E outs \in OutArgs(L), plegs \in {Times(c, L) : c \in {1, 2, 3}} :
                CallListSample(M, outs, plegs, mode, method, n_samples, sumOk)
    \/ NextOfListSample

----------------------------------------------------------------------------
(* Claims about expectations, probab and sample *)

AllLegs(plegs, c) == \A i \in 1..Len(plegs) : plegs[i] = c

\* C8: expectations(state, 'auto') works in 'mps' mode when every site of
\* state has 1 physical leg and in 'mpdo' mode when every site has 2; with
\* mixed or other leg counts, or with a mode string that is none of mps,
\* mpdo, pmps, auto, it fails with the ValueError of the mode dispatch and
\* yields no probability tensor (the state being at least as long as self).
C8_AutoModeDispatch ==
    (gen.kind = "expectations" /\ gen.pc # "created" /\ gen.L <= Len(gen.plegs))
    => /\ (gen.mode = "auto" /\ AllLegs(gen.plegs, 1))
          => /\ gen.err = "none" /\ gen.seq # <<>>
             /\ \A n \in 1..Len(gen.seq) : gen.seq[n].mode = "mps"
       /\ (gen.mode = "auto" /\ AllLegs(gen.plegs, 2))
          => /\ gen.err = "none" /\ gen.seq # <<>>
             /\ \A n \in 1..Len(gen.seq) : gen.seq[n].mode = "mpdo"
       /\ (\/ gen.mode = "auto" /\ ~AllLegs(gen.plegs, 1) /\ ~AllLegs(gen.plegs, 2)
           \/ gen.mode \notin {"mps", "mpdo", "pmps", "auto"})
          => gen.err = "ValueError" /\ gen.seq = <<>> /\ gen.made = 0

C8_Witness ==
    /\ gen.kind = "expectations" /\ gen.mode = "auto"
    /\ gen.plegs = <<1, 2, 2>> /\ gen.L = 2
    /\ gen.err = "ValueError" /\ gen.seq = <<>>

BadMode(m) == m \notin {"mps", "mpdo", "pmps", "auto"}
BadMethod(m) == m \notin {"cond", "direct"}

\* C9 as stated: a mode or method string that is none of the known ones
\* makes the call itself fail, before any probability tensor is computed,
\* before any other check and before any random number is drawn.
C9_FailsInTheCallItself ==
    /\ (call.op \in {"expectations", "probab"} /\ BadMode(call.mode))
       => call.res.outcome = "ValueError" /\ call.res.made = 0
    /\ (call.op \in {"sample", "list.sample"} /\ BadMethod(call.method))
       => /\ call.res.outcome = "ValueError"
          /\ call.res.made = 0 /\ call.res.draws = 0

\* C9, amended: with a mode or method string that is none of the known ones
\* no probability tensor is ever yielded, no sample returned, no random
\* number drawn and no other mode or method used instead.  probab and
\* MPPovm.sample fail in the call; expectations and MPPovmList.sample return
\* a generator that fails at its first next() (the generator of a list
\* without members has nothing to run and just ends).  The length assertion comes
\* before the mode is looked at, and the method is looked at only after the
\* probability tensor has been computed and checked.
C9_NoFallbackFailsAtFirstUse ==
    /\ (gen.kind = "expectations" /\ BadMode(gen.mode))
       => /\ gen.seq = <<>> /\ gen.made = 0
          /\ gen.pc # "created" =>
                gen.err = (IF gen.L <= Len(gen.plegs) THEN "ValueError"
                           ELSE "AssertionError")
    /\ (call.op = "probab" /\ BadMode(call.mode))
       => /\ call.res.value = <<>> /\ call.res.made = 0
          /\ call.res.outcome = (IF call.L = Len(call.plegs) THEN "ValueError"
                                 ELSE "AssertionError")
    /\ (call.op = "sample" /\ BadMethod(call.method))
       => /\ call.res.value = <<>> /\ call.res.draws = 0
          /\ call.res.outcome \in {"ValueError", "AssertionError"}
          /\ (/\ call.L = Len(call.plegs)
              /\ AutoMode(call.plegs, call.mode) \in Modes
              /\ call.sumOk
              /\ \A i \in 1..Len(call.outs) : call.outs[i] <= OutLimit)
             => call.res.outcome = "ValueError" /\ call.res.made = 1
    /\ (gen.kind = "list.sample" /\ BadMethod(gen.method))
       => /\ gen.seq = <<>> /\ gen.draws = 0
          /\ (gen.pc # "created" /\ gen.M > 0)
             => gen.err \in {"ValueError", "AssertionError"}
          /\ (/\ gen.pc # "created" /\ gen.M > 0
              /\ AutoMode(gen.plegs, gen.mode) \in Modes
              /\ gen.sumOk
              /\ \A i \in 1..Len(gen.outs) : gen.outs[i] <= OutLimit)
             => gen.err = "ValueError" /\ gen.made = 1

C9_Witness ==
    /\ gen.kind = "list.sample" /\ BadMethod(gen.method)
    /\ gen.mode = "auto" /\ gen.plegs = <<2, 2>> /\ gen.sumOk
    /\ gen.err = "ValueError" /\ gen.made = 1 /\ gen.stops = 1

\* C10: expectations(state) on a valid state yields exactly
\* len(state) - len(self) + 1 probability tensors, the n-th for the window
\* of sites [n, n + len(self)), each computed only when it is asked for, and
\* is then exhausted for good; probab(state) requires len(state) = len(self)
\* and returns the one tensor of that sequence.
C10_LazyWindows ==
    /\ (/\ gen.kind = "expectations" /\ gen.L <= Len(gen.plegs)
        /\ AutoMode(gen.plegs, gen.mode) \in Modes)
       => LET total == Len(gen.plegs) - gen.L + 1 IN
          /\ gen.err = "none"
          /\ gen.made = Len(gen.seq) /\ Len(gen.seq) <= total
          /\ \A n \in 1..Len(gen.seq) :
                gen.seq[n].lo = n - 1 /\ gen.seq[n].hi = n - 1 + gen.L
          /\ call.op = "expectations" => call.res.made = 0 /\ gen.seq = <<>>
          /\ (call.op = "next" /\ gen.stops = 0)
             => /\ call.res.outcome = "ok" /\ call.res.made = 1
                /\ call.res.value = gen.seq[Len(gen.seq)]
          /\ gen.stops > 0
             => /\ Len(gen.seq) = total
                /\ call.res.outcome = "StopIteration" /\ call.res.made = 0
    /\ call.op = "probab"
       => /\ call.L # Len(call.plegs)
             => call.res.outcome = "AssertionError" /\ call.res.value = <<>>
          /\ (call.L = Len(call.plegs) /\ AutoMode(call.plegs, call.mode) \in Modes)
             => /\ call.res.outcome = "ok" /\ call.res.made = 1
                /\ call.res.value.lo = 0 /\ call.res.value.hi = call.L

C10_Witness ==
    /\ gen.kind = "expectations" /\ gen.L = 2 /\ Len(gen.plegs) = 3
    /\ Len(gen.seq) = 2 /\ gen.stops = 2
    /\ gen.seq[2].lo = 1 /\ gen.seq[2].hi = 3

----------------------------------------------------------------------------
(* mpnum/povm/mppovm.py: _sample_cond_single, _sample_cond, _sample_direct *)
(*                                                                         *)
(* The probability tensor sample() gets from probab() and prunes is a      *)
(* record [dims, w, den]: one leg per measured site, and the probability   *)
(* of the outcome o is w[o]/den.  Outcomes are sequences of numbers from   *)
(* 0, as in the code.  The random generator is the model's choice: every   *)
(* index rng.choice can return (one of positive probability) is followed.  *)

\* a rational in lowest terms, den > 0
Q(n, d) ==
    LET g == GCD(Abs(n), Abs(d))
        sg == IF d < 0 THEN -1 ELSE 1
    IN  [num |-> (sg * n) \div g, den |-> (sg * d) \div g]

QOne == Q(1, 1)
QMul(a, b) == Q(a.num * b.num, a.den * b.den)
QDiv(a, b) == Q(a.num * b.den, a.den * b.num)
QAdd(a, b) == Q(a.num * b.den + b.num * a.den, a.den * b.den)

\* the multi-indices of an array of shape dims
RECURSIVE Tuples(_)
Tuples(dims) ==
    IF dims = <<>> THEN {<<>>}
    ELSE {<<x>> \o t : x \in 0..(Head(dims) - 1), t \in Tuples(Tail(dims))}

RECURSIVE SumOver(_, _)
SumOver(S, f) ==
    IF S = {} THEN 0
    ELSE LET x == CHOOSE y \in S : TRUE IN f[x] + SumOver(S \ {x}, f)

\* p.sum([()] * n_sites + [(0,)]): the sum over the outcomes of the last site
SumLast(t) ==
    LET k == Len(t.dims)
        rest == SubSeq(t.dims, 1, k - 1)
    IN  [dims |-> rest, den |-> t.den,
         w |-> [o \in Tuples(rest) |->
                  SumOver(0..(t.dims[k] - 1), [x \in 0..(t.dims[k] - 1) |-> t.w[Append(o, x)]])]]

\* _sample_cond: marginal_p, entry k + 1 the distribution on the first k sites
RECURSIVE Marginals(_)
Marginals(t) ==
    IF t.dims = <<>> THEN <<t>> ELSE Append(Marginals(SumLast(t)), t)

\* the value every entry of `out` has before it is filled in: 0xff
Unfilled == 255

\* out[n_out:n_out + n_group] = np.unravel_index(choice, p.shape)
Assign(out, n_out, g) ==
    [i \in 1..Len(out) |->
        IF n_out < i /\ i <= n_out + Len(g) THEN g[i - n_out] ELSE out[i]]

\* how one _sample_cond_single ended: the row it filled, its out_p, whether
\* all its assertions held, and the values n_out took in its loop
Run(out, out_p, ok, at) == [out |-> out, out_p |-> out_p, ok |-> ok, at |-> at]

\* SampleCondSingle never updating out_p
RECURSIVE SampleCondSingleStaleP(_, _, _, _, _, _)
SampleCondSingleStaleP(marginal_p, n_group, n_out, out, out_p, at) ==
    LET n_sites == Len(marginal_p) - 1
        full == marginal_p[n_sites + 1]
    IN  IF n_out >= n_sites
        THEN {Run(out, out_p, /\ \A i \in 1..n_sites : out[i] < full.dims[i]
                              /\ Q(full.w[out], full.den) = out_p, at)}
        ELSE IF out_p.num = 0 THEN {Run(out, out_p, FALSE, at)}
        ELSE LET hi == IF n_sites < n_out + n_group THEN n_sites
                       ELSE n_out + n_group
                 p == marginal_p[hi + 1]
                 shape == SubSeq(p.dims, n_out + 1, Len(p.dims))
                 pre == SubSeq(out, 1, n_out)
                 cond == [g \in Tuples(shape) |->
                            QDiv(Q(p.w[pre \o g], p.den), out_p)]
                 total == Q(SumOver(Tuples(shape),
                                    [g \in Tuples(shape) |-> p.w[pre \o g]]),
                            p.den)
             IN  IF QDiv(total, out_p) # QOne THEN {Run(out, out_p, FALSE, at)}
                 ELSE UNION {SampleCondSingleStaleP(marginal_p, n_group,
                                 n_out + n_group, Assign(out, n_out, g), out_p,
                                 Append(at, n_out))
                             : g \in {h \in Tuples(shape) : cond[h].num > 0}}

\* _sample_cond_single from the group at n_out on: the ways it can end, one
\* for every sequence of choices the random generator can make
RECURSIVE SampleCondSingle(_, _, _, _, _, _)
SampleCondSingle(marginal_p, n_group, n_out, out, out_p, at) ==
    LET n_sites == Len(marginal_p) - 1
        full == marginal_p[n_sites + 1]
    IN  IF n_out >= n_sites
        THEN \* the final guard; an index that is no outcome cannot be looked up
             {Run(out, out_p, /\ \A i \in 1..n_sites : out[i] < full.dims[i]
                              /\ Q(full.w[out], full.den) = out_p, at)}
        ELSE IF out_p.num = 0 THEN {Run(out, out_p, FALSE, at)}
        ELSE LET hi == IF n_sites < n_out + n_group THEN n_sites
                       ELSE n_out + n_group
                 p == marginal_p[hi + 1]
                 shape == SubSeq(p.dims, n_out + 1, Len(p.dims))
                 pre == SubSeq(out, 1, n_out)
                 cond == [g \in Tuples(shape) |->
                            QDiv(Q(p.w[pre \o g], p.den), out_p)]
                 total == Q(SumOver(Tuples(shape),
                                    [g \in Tuples(shape) |-> p.w[pre \o g]]),
                            p.den)
             IN  IF QDiv(total, out_p) # QOne THEN {Run(out, out_p, FALSE, at)}
                 ELSE UNION {SampleCondSingle(marginal_p, n_group,
                                 n_out + n_group, Assign(out, n_out, g),
                                 QMul(out_p, cond[g]), Append(at, n_out))
                             : g \in {h \in Tuples(shape) : cond[h].num > 0}}

\* one _sample_cond_single on a fresh row of `out`
CondRuns(t, n_group) ==
    SampleCondSingle(Marginals(t), n_group, 0,
                     [i \in 1..Len(t.dims) |-> Unfilled], QOne, <<>>)

\* _sample_direct: the rows rng.choice can produce, and its assertion on the sum
DirectRuns(t) ==
    IF SumOver(Tuples(t.dims), t.w) # t.den
    THEN {Run([i \in 1..Len(t.dims) |-> Unfilled], QOne, FALSE, <<>>)}
    ELSE {Run(o, Q(t.w[o], t.den), TRUE, <<>>) : o \in {u \in Tuples(t.dims) : t.w[u] > 0}}

\* how a sample call ended: its outcome, the array it returned (a sequence
\* of rows), and for each row the out_p its sampler ended with and the
\* offsets its groups were drawn at
Drawn(outcome, value, out_p, at) ==
    [outcome |-> outcome, value |-> value, out_p |-> out_p, at |-> at]

\* SampleDraws with one column for every site, measured or not
SampleDrawsAllSites(t, outs, method, n_samples, n_group) ==
    LET runs == IF method = "cond" THEN CondRuns(t, n_group) ELSE DirectRuns(t)
        pad(row) == [i \in 1..Len(outs) |-> IF i <= Len(row) THEN row[i] ELSE 0]
    IN  {Drawn("ok", [i \in 1..n_samples |-> pad(rs[i].out)],
               [i \in 1..n_samples |-> rs[i].out_p],
               [i \in 1..n_samples |-> rs[i].at])
         : rs \in [1..n_samples -> runs]}

\* MPPovm.sample from the pruned probability tensor t on: the ways the call
\* can end, one for every sequence of choices of the random generator
SampleDraws(t, outs, method, n_samples, n_group) ==
    LET nsoutdims == Nsoutdims(outs)
        runs == IF method = "cond" THEN CondRuns(t, n_group) ELSE DirectRuns(t)
        filled(rs) ==
            \A i \in 1..n_samples : \A j \in 1..Len(nsoutdims) :
                rs[i].out[j] < nsoutdims[j]
    IN  IF SumOver(Tuples(t.dims), t.w) # t.den
        THEN {Drawn("AssertionError", <<>>, <<>>, <<>>)}
        ELSE IF \E i \in 1..Len(outs) : outs[i] > OutLimit
        THEN {Drawn("AssertionError", <<>>, <<>>, <<>>)}
        ELSE IF method \notin Methods THEN {Drawn("ValueError", <<>>, <<>>, <<>>)}
        ELSE {IF (\A i \in 1..n_samples : rs[i].ok) /\ filled(rs)
              THEN Drawn("ok", [i \in 1..n_samples |-> rs[i].out],
                         [i \in 1..n_samples |-> rs[i].out_p],
                         [i \in 1..n_samples |-> rs[i].at])
              ELSE Drawn("AssertionError", <<>>, <<>>, <<>>)
              : rs \in [1..n_samples -> runs]}

----------------------------------------------------------------------------
(* The sampling specification: one call of sample on an MPPovm with the    *)
(* outcome dimensions outs and a state whose probability tensor is t       *)

\* the outcome dimensions of the MPPovms sampled from
SampleOutdims ==
    {<<2>>, <<1, 2>>, <<2, 2>>, <<3, 2>>, <<2, 1, 2>>, <<2, 2, 2>>}

\* w[o] is drawn from Weights
Weights == {0, 1}

\* the probability tensors of the given shape; the last conjunct admits the
\* ones whose entries do not sum to one
Tensors(dims) ==
    UNION {{[dims |-> dims, w |-> w, den |-> SumOver(Tuples(dims), w) + extra]
            : extra \in {0, 1}}
           : w \in {v \in [Tuples(dims) -> Weights] :
                      SumOver(Tuples(dims), v) > 0}}

InitSampling ==
    /\ gen = NoGen
    /\ call = NoCall
    /\ mpp = <<>> /\ lst = NoList
    /\ objs = <<>> /\ clsPovms = <<"X", "Y">> /\ clsWeights = <<Half, Half>>

CallSampleDraws(t, outs, method, n_samples, n_group) ==
    /\ \E res \in SampleDraws(t, outs, method, n_samples, n_group) :
          call' = [op |-> "sample", outs |-> outs, t |-> t, method |-> method,
                   n_samples |-> n_samples, n_group |-> n_group, res |-> res]
    /\ gen' = NoGen
    /\ UNCHANGED <<structVars, localVars>>

NextSampling ==
    /\ Idle
    /\ \E outs \in SampleOutdims, method \in MethodArgs,
          n_samples \in 1..MaxSamples, n_group \in 1..MaxGroup :
          \E t \in Tensors(Nsoutdims(outs)) :
             CallSampleDraws(t, outs, method, n_samples, n_group)

----------------------------------------------------------------------------
(* Claims about the samplers *)

\* C11: whenever sample returns, by direct or by conditional sampling with
\* any n_group >= 1, the result has n_samples rows and one column for every
\* measured site (outcome dimension > 1), every entry is an outcome of its
\* column's site and so below 255, and no entry is still the 0xff it was
\* initialised with.
C11_SampleArrayFilled ==
    (call.op = "sample" /\ call.res.outcome = "ok")
    => LET nsoutdims == Nsoutdims(call.outs)
           out == call.res.value
       IN  /\ call.method \in {"cond", "direct"}
           /\ Len(out) = call.n_samples
           /\ \A i \in 1..Len(out) :
                /\ Len(out[i]) = Len(nsoutdims)
                /\ \A j \in 1..Len(nsoutdims) :
                     /\ out[i][j] \in 0..(nsoutdims[j] - 1)
                     /\ out[i][j] < OutLimit /\ out[i][j] # Unfilled

C11_Witness ==
    /\ call.op = "sample" /\ call.res.outcome = "ok"
    /\ call.method = "cond" /\ call.n_group = 2 /\ call.outs = <<2, 1, 2>>
    /\ call.res.value = <<(<<1, 0>>), (<<0, 1>>)>>

\* the offsets 0, n_group, 2*n_group, ... below k
RECURSIVE Offsets(_, _, _)
Offsets(from, n_group, k) ==
    IF from >= k THEN <<>> ELSE <<from>> \o Offsets(from + n_group, n_group, k)

Project(runs) == {[out |-> r.out, out_p |-> r.out_p, ok |-> r.ok] : r \in runs}

\* C12: conditional sampling with any n_group >= 1 draws its groups at the
\* offsets 0, n_group, 2*n_group, ...; the product of the conditional
\* probabilities of the groups drawn equals the joint probability of the
\* assembled outcome, so that the final guard never fails, no outcome of
\* probability zero is returned, and the outcomes come with the same
\* probabilities as under direct sampling.
C12_CondProductIsJoint ==
    (/\ call.op = "sample" /\ call.method = "cond"
     /\ SumOver(Tuples(call.t.dims), call.t.w) = call.t.den)
    => /\ call.res.outcome = "ok"
       /\ \A i \in 1..call.n_samples :
            /\ call.res.at[i] = Offsets(0, call.n_group, Len(call.t.dims))
            /\ call.t.w[call.res.value[i]] > 0
            /\ call.res.out_p[i] = Q(call.t.w[call.res.value[i]], call.t.den)
       /\ Project(CondRuns(call.t, call.n_group)) = Project(DirectRuns(call.t))

C12_Witness ==
    /\ call.op = "sample" /\ call.method = "cond" /\ call.n_group = 2
    /\ call.t.dims = <<2, 2, 2>> /\ call.t.den = 3
    /\ call.res.outcome = "ok"
    /\ call.res.value[1] = <<0, 1, 1>> /\ call.res.out_p[1] = Q(1, 3)
    /\ call.res.at[1] = <<0, 2>>

----------------------------------------------------------------------------
(* mpnum/povm/mppovm.py: find_matching_elements, _elemsum_identity,        *)
(* counts_from, count_samples, estprob_from_mpplist                        *)
(*                                                                         *)
(* The MPPovms here are products of single-qubit POVMs (all bonds 1), a    *)
(* site's label naming its elements table.  A table row is the flattened   *)
(* 2 x 2 matrix of the element, times 4 so that every entry is an integer; *)
(* the factor cancels in every ratio the code takes.  A samples array is   *)
(* the sequence of its rows.  A missing number (np.nan) is NaN.            *)

\* the elements tables: the identity, X(2), Z(2), Combined((X, Z), (1/2, 1/2))
\* and X(2) with each element split into two halves
LocalElems(kind) ==
    CASE kind = "eye" -> <<(<<4, 0, 0, 4>>)>>
      [] kind = "X" -> <<(<<2, 2, 2, 2>>), (<<2, -2, -2, 2>>)>>
      [] kind = "Z" -> <<(<<4, 0, 0, 0>>), (<<0, 0, 0, 4>>)>>
      [] kind = "XZ" -> <<(<<1, 1, 1, 1>>), (<<1, -1, -1, 1>>),
                          (<<2, 0, 0, 0>>), (<<0, 0, 0, 2>>)>>
      [] kind = "XX" -> <<(<<1, 1, 1, 1>>), (<<1, 1, 1, 1>>),
                          (<<1, -1, -1, 1>>), (<<1, -1, -1, 1>>)>>
      [] kind = "ZP" -> <<(<<2, 0, 0, 0>>), (<<1, 1, 1, 2>>),
                          (<<1, -1, -1, 2>>)>>

\* MPPovm.from_kron of the tables named
FromKinds(kinds) ==
    [i \in 1..Len(kinds) |->
        Site(<<kinds[i], 0>>, Len(LocalElems(kinds[i])), 2, 1, 1)]

\* the local tensor of a site: its elements
Ltens(site) == LocalElems(site.t[1])

NaN == [num |-> 0, den |-> 0]

Dot(u, v) == SumOver(1..Len(u), [i \in 1..Len(u) |-> u[i] * v[i]])

RECURSIVE VecSum(_)
VecSum(vs) ==
    IF Len(vs) = 1 THEN vs[1]
    ELSE LET r == VecSum(Tail(vs)) IN [i \in 1..Len(r) |-> vs[1][i] + r[i]]

Kron(u, v) ==
    [k \in 1..(Len(u) * Len(v)) |->
        u[((k - 1) \div Len(v)) + 1] * v[((k - 1) % Len(v)) + 1]]

RECURSIVE ProdOver(_, _)
ProdOver(S, f) ==
    IF S = {} THEN 1
    ELSE LET x == CHOOSE y \in S : TRUE IN f[x] * ProdOver(S \ {x}, f)

\* the square root of a square
ISqrt(n) == CHOOSE r \in 0..n : r * r = n
QSqrt(q) == [num |-> ISqrt(q.num), den |-> ISqrt(q.den)]

\* tuple(pos for pos, dim in enumerate(outdims) if dim > 1), positions from 0
RECURSIVE SupportFrom(_, _)
SupportFrom(outdims, pos) ==
    IF pos >= Len(outdims) THEN <<>>
    ELSE (IF outdims[pos + 1] > 1 THEN <<pos>> ELSE <<>>)
         \o SupportFrom(outdims, pos + 1)

Support(outdims) == SupportFrom(outdims, 0)

\* the row of the local tensor of every site that the outcome o on the
\* sites of `support` selects; a site outside `support` has one row
Rows(n, support, o) ==
    [i \in 1..n |->
        IF \E j \in 1..Len(support) : support[j] = i - 1
        THEN o[CHOOSE j \in 1..Len(support) : support[j] = i - 1] + 1
        ELSE 1]

\* mp.prune(mpa, singletons=True), on shapes: a site all of whose physical
\* legs have dimension 1 is contracted away; pdims[i] are the legs of site i
RECURSIVE Pruned(_)
Pruned(pdims) ==
    IF pdims = <<>> THEN <<>>
    ELSE (IF \A j \in 1..Len(Head(pdims)) : Head(pdims)[j] = 1 THEN <<>>
          ELSE <<Head(pdims)>>) \o Pruned(Tail(pdims))

\* to_array_global: the first legs of all sites, then the second legs
GlobalShape(pdims) ==
    [i \in 1..Len(pdims) |-> pdims[i][1]] \o [i \in 1..Len(pdims) |-> pdims[i][2]]

\* mp.dot(tr, other): the outcomes of `other` are summed over on the sites
\* where self has a single outcome
Collapse(self, other) ==
    [i \in 1..Len(self) |->
        IF self[i].out > 1 THEN Ltens(other[i]) ELSE <<VecSum(Ltens(other[i]))>>]

\* what find_matching_elements returns: match and prefactors, both of `shape`
\* and indexed by the outcome of self followed by the outcome of other
Matching(shape, match, prefactors) ==
    [shape |-> shape, match |-> match, prefactors |-> prefactors]

\* the names find_matching_elements can read: its parameters, the locals
\* assigned before line 288 and the globals of the module it uses there
FindMatchingNames == {"self", "other", "exclude_dup", "eps", "len"}

\* some outcome b of other matches two outcomes of self / some outcome a of
\* self matches two outcomes of other (k: number of measured sites of self)
DupInSelf(shape, match, k) ==
    \E x \in Tuples(shape), y \in Tuples(shape) :
       /\ x # y /\ SubSeq(x, k + 1, Len(x)) = SubSeq(y, k + 1, Len(y))
       /\ match[x] /\ match[y]
DupInOther(shape, match, k) ==
    \E x \in Tuples(shape), y \in Tuples(shape) :
       /\ x # y /\ SubSeq(x, 1, k) = SubSeq(y, 1, k)
       /\ match[x] /\ match[y]

\* FindMatchingElements leaving the prefactor 0 where nothing matches
FindMatchingElementsZeroed(self, other, exclude_dup) ==
    LET n == Len(self)
        mine == [i \in 1..n |-> Ltens(self[i])]
        red == Collapse(self, other)
        support == Support(Outdims(self))
        k == Len(support)
        shape == GlobalShape(Pruned([i \in 1..n |-> <<Len(mine[i]), Len(red[i])>>]))
        sshape == Concat(Pruned([i \in 1..n |-> <<Len(mine[i])>>]))
        oshape == Concat(Pruned([i \in 1..n |-> <<Len(red[i])>>]))
        inner(a, b) == ProdOver(1..n, [i \in 1..n |-> Dot(mine[i][a[i]], red[i][b[i]])])
        snormsq(a) == ProdOver(1..n, [i \in 1..n |-> Dot(mine[i][a[i]], mine[i][a[i]])])
        onormsq(b) == ProdOver(1..n, [i \in 1..n |-> Dot(red[i][b[i]], red[i][b[i]])])
        entry(ix) ==
            LET a == Rows(n, support, SubSeq(ix, 1, k))
                b == Rows(n, support, SubSeq(ix, k + 1, 2 * k))
                sn == snormsq(a)
                on == onormsq(b)
                m == inner(a, b) * inner(a, b) = sn * on
            IN  [m |-> m, p |-> IF m THEN QSqrt(Q(sn, on)) ELSE Q(0, 1)]
        table == [ix \in Tuples(shape) |-> entry(ix)]
    IN  IF Hdims(self) # Hdims(other) THEN Raise("ValueError")
        ELSE IF Len(exclude_dup) > 0
                /\ "exclude_duplicates" \notin FindMatchingNames
        THEN Raise("NameError")
        ELSE IF shape # sshape \o oshape THEN Raise("AssertionError")
        ELSE IF (\E e \in 1..Len(exclude_dup) : exclude_dup[e] = "self")
                /\ DupInSelf(shape, [ix \in Tuples(shape) |-> table[ix].m], k)
        THEN Raise("AssertionError")
        ELSE IF (\E e \in 1..Len(exclude_dup) : exclude_dup[e] = "other")
                /\ DupInOther(shape, [ix \in Tuples(shape) |-> table[ix].m], k)
        THEN Raise("AssertionError")
        ELSE Ok(Matching(shape, [ix \in Tuples(shape) |-> table[ix].m],
                         [ix \in Tuples(shape) |-> table[ix].p]))

\* MPPovm.find_matching_elements
FindMatchingElements(self, other, exclude_dup) ==
    LET n == Len(self)
        mine == [i \in 1..n |-> Ltens(self[i])]
        red == Collapse(self, other)
        support == Support(Outdims(self))
        k == Len(support)
        shape == GlobalShape(Pruned([i \in 1..n |-> <<Len(mine[i]), Len(red[i])>>]))
        sshape == Concat(Pruned([i \in 1..n |-> <<Len(mine[i])>>]))
        oshape == Concat(Pruned([i \in 1..n |-> <<Len(red[i])>>]))
        inner(a, b) == ProdOver(1..n, [i \in 1..n |-> Dot(mine[i][a[i]], red[i][b[i]])])
        snormsq(a) == ProdOver(1..n, [i \in 1..n |-> Dot(mine[i][a[i]], mine[i][a[i]])])
        onormsq(b) == ProdOver(1..n, [i \in 1..n |-> Dot(red[i][b[i]], red[i][b[i]])])
        entry(ix) ==
            LET a == Rows(n, support, SubSeq(ix, 1, k))
                b == Rows(n, support, SubSeq(ix, k + 1, 2 * k))
                sn == snormsq(a)
                on == onormsq(b)
                m == inner(a, b) * inner(a, b) = sn * on
            IN  [m |-> m, p |-> IF m THEN QSqrt(Q(sn, on)) ELSE NaN]
        table == [ix \in Tuples(shape) |-> entry(ix)]
    IN  IF Hdims(self) # Hdims(other) THEN Raise("ValueError")
        ELSE IF Len(exclude_dup) > 0
                /\ "exclude_duplicates" \notin FindMatchingNames
        THEN Raise("NameError")
        ELSE IF shape # sshape \o oshape THEN Raise("AssertionError")
        ELSE IF (\E e \in 1..Len(exclude_dup) : exclude_dup[e] = "self")
                /\ DupInSelf(shape, [ix \in Tuples(shape) |-> table[ix].m], k)
        THEN Raise("AssertionError")
        ELSE IF (\E e \in 1..Len(exclude_dup) : exclude_dup[e] = "other")
                /\ DupInOther(shape, [ix \in Tuples(shape) |-> table[ix].m], k)
        THEN Raise("AssertionError")
        ELSE Ok(Matching(shape, [ix \in Tuples(shape) |-> table[ix].m],
                         [ix \in Tuples(shape) |-> table[ix].p]))

\* factory.eye(len(self), self.hdims): the identity, scaled like the tables
RECURSIVE KronAll(_)
KronAll(vs) == IF Len(vs) = 1 THEN vs[1] ELSE Kron(vs[1], KronAll(Tail(vs)))

\* the element of self the rows a select, as one vector
Element(self, a) == KronAll([i \in 1..Len(self) |-> Ltens(self[i])[a[i]]])

RECURSIVE VecSumSet(_, _, _)
VecSumSet(self, S, support) ==
    LET o == CHOOSE x \in S : TRUE
        v == Element(self, Rows(Len(self), support, o))
    IN  IF S = {o} THEN v
        ELSE LET r == VecSumSet(self, S \ {o}, support)
             IN  [i \in 1..Len(v) |-> v[i] + r[i]]

\* ElemsumIdentity taking every sum for a multiple of the identity
ElemsumIdentityAnySum(self, support, given) ==
    LET S == {o \in DOMAIN given : given[o]}
        elem_sum == VecSumSet(self, S, support)
        eye == KronAll([i \in 1..Len(self) |-> LocalElems("eye")[1]])
    IN  IF S = {} THEN Raise("AssertionError")
        ELSE Ok(<<Q(Dot(elem_sum, eye), Dot(eye, eye))>>)

\* MPPovm._elemsum_identity; the value is <<>> for None, <<fraction>> otherwise
ElemsumIdentity(self, support, given) ==
    LET S == {o \in DOMAIN given : given[o]}
        any_missing == S # DOMAIN given
        elem_sum == VecSumSet(self, S, support)
        eye == KronAll([i \in 1..Len(self) |-> LocalElems("eye")[1]])
        sum_normsq == Dot(elem_sum, elem_sum)
        eye_normsq == Dot(eye, eye)
        inner == Dot(elem_sum, eye)
    IN  IF S = {} THEN Raise("AssertionError")
        ELSE IF sum_normsq * eye_normsq # inner * inner THEN Ok(<<>>)
        ELSE LET all_prefactor == QSqrt(Q(sum_normsq, eye_normsq))
             IN  IF any_missing /\ ~(all_prefactor.num <= all_prefactor.den)
                 THEN Raise("AssertionError")
                 ELSE IF ~any_missing /\ all_prefactor # QOne
                 THEN Raise("AssertionError")
                 ELSE Ok(<<all_prefactor>>)

\* the counts and the number of samples used that counts_from returns
Counts(counts, n_samples_used) ==
    [counts |-> counts, n_samples_used |-> n_samples_used]

\* samples[:, support]: the columns at the positions in support (from 0)
Columns(samples, support) ==
    [r \in 1..Len(samples) |->
        [j \in 1..Len(support) |-> samples[r][support[j] + 1]]]

RECURSIVE QSumOver(_, _)
QSumOver(S, f) ==
    IF S = {} THEN Q(0, 1)
    ELSE LET x == CHOOSE y \in S : TRUE IN QAdd(f[x], QSumOver(S \ {x}, f))

\* (samples == out[None, :]).all(1).sum()
CountRows(samples, out) ==
    Cardinality({r \in 1..Len(samples) : samples[r] = out})

\* what counts_from holds before it looks at the samples: the result of
\* find_matching_elements, `given` and the result of _elemsum_identity
Matched(self, other) ==
    LET fm == FindMatchingElements(self, other, <<>>)
        support == Support(Outdims(self))
        mine == Tuples(Nsoutdims(Outdims(self)))
        theirs == Tuples([j \in 1..Len(support) |-> Outdims(other)[support[j] + 1]])
        given == [o \in mine |-> \E u \in theirs : fm.value.match[o \o u]]
    IN  IF fm.outcome # "ok" THEN [fm |-> fm, given |-> <<>>, es |-> fm]
        ELSE [fm |-> fm, given |-> given,
              es |-> ElemsumIdentity(self, support, given)]

\* CountsFromMatched adding up counts without dividing by n_samples
CountsFromMatchedRaw(self, other, samples, m) ==
    LET n_samples == Len(samples)
        support == Support(Outdims(self))
        k == Len(support)
        mine == Tuples(Nsoutdims(Outdims(self)))
        other_outdims == [j \in 1..k |-> Outdims(other)[support[j] + 1]]
        theirs == Tuples(other_outdims)
        match == m.fm.value.match
        prefactors == m.fm.value.prefactors
        cols == Columns(samples, support)
        counts == [o \in mine |->
                     QSumOver({u \in theirs : match[o \o u]},
                              [u \in theirs |->
                                 IF match[o \o u]
                                 THEN QMul(prefactors[o \o u],
                                           Q(CountRows(cols, u), 1))
                                 ELSE Q(0, 1)])]
    IN  IF Len(self) # Len(other) THEN Raise("AssertionError")
        ELSE IF \E r \in 1..n_samples :
                   Len(samples[r]) # Len(Nsoutdims(Outdims(other)))
        THEN Raise("AssertionError")
        ELSE IF m.fm.outcome # "ok" THEN Raise(m.fm.outcome)
        ELSE IF m.fm.value.shape # Nsoutdims(Outdims(self)) \o other_outdims
        THEN Raise("AssertionError")
        ELSE IF \A o \in mine : ~m.given[o]
        THEN Ok(Counts([o \in mine |-> NaN], 0))
        ELSE IF m.es.outcome # "ok" THEN Raise(m.es.outcome)
        ELSE IF m.es.value = <<>> THEN Raise("AssertionError")
        ELSE IF \E j \in 1..k : support[j] >= Len(samples[1])
        THEN Raise("IndexError")
        ELSE IF \E r \in 1..n_samples : cols[r] \notin theirs
        THEN Raise("IndexError")
        ELSE IF QSumOver(mine, counts) # m.es.value[1] THEN Raise("AssertionError")
        ELSE Ok(Counts([o \in mine |-> IF m.given[o] THEN counts[o] ELSE NaN],
                       Cardinality({r \in 1..n_samples :
                                      \E o \in mine : match[o \o cols[r]]})))

\* CountsFromMatched leaving 0.0 where no element of other matches
CountsFromMatchedUnmasked(self, other, samples, m) ==
    LET n_samples == Len(samples)
        support == Support(Outdims(self))
        k == Len(support)
        mine == Tuples(Nsoutdims(Outdims(self)))
        other_outdims == [j \in 1..k |-> Outdims(other)[support[j] + 1]]
        theirs == Tuples(other_outdims)
        match == m.fm.value.match
        prefactors == m.fm.value.prefactors
        cols == Columns(samples, support)
        counts == [o \in mine |->
                     QSumOver({u \in theirs : match[o \o u]},
                              [u \in theirs |->
                                 IF match[o \o u]
                                 THEN QMul(prefactors[o \o u],
                                           Q(CountRows(cols, u), n_samples))
                                 ELSE Q(0, 1)])]
    IN  IF Len(self) # Len(other) THEN Raise("AssertionError")
        ELSE IF \E r \in 1..n_samples :
                   Len(samples[r]) # Len(Nsoutdims(Outdims(other)))
        THEN Raise("AssertionError")
        ELSE IF m.fm.outcome # "ok" THEN Raise(m.fm.outcome)
        ELSE IF m.fm.value.shape # Nsoutdims(Outdims(self)) \o other_outdims
        THEN Raise("AssertionError")
        ELSE IF \A o \in mine : ~m.given[o]
        THEN Ok(Counts([o \in mine |-> NaN], 0))
        ELSE IF m.es.outcome # "ok" THEN Raise(m.es.outcome)
        ELSE IF m.es.value = <<>> THEN Raise("AssertionError")
        ELSE IF \E j \in 1..k : support[j] >= Len(samples[1])
        THEN Raise("IndexError")
        ELSE IF \E r \in 1..n_samples : cols[r] \notin theirs
        THEN Raise("IndexError")
        ELSE IF QSumOver(mine, counts) # m.es.value[1] THEN Raise("AssertionError")
        ELSE Ok(Counts([o \in mine |-> counts[o]],
                       Cardinality({r \in 1..n_samples :
                                      \E o \in mine : match[o \o cols[r]]})))

\* MPPovm.counts_from, from line 675 on, m being Matched(self, other)
CountsFromMatched(self, other, samples, m) ==
    LET n_samples == Len(samples)
        support == Support(Outdims(self))
        k == Len(support)
        mine == Tuples(Nsoutdims(Outdims(self)))
        other_outdims == [j \in 1..k |-> Outdims(other)[support[j] + 1]]
        theirs == Tuples(other_outdims)
        match == m.fm.value.match
        prefactors == m.fm.value.prefactors
        cols == Columns(samples, support)
        counts == [o \in mine |->
                     QSumOver({u \in theirs : match[o \o u]},
                              [u \in theirs |->
                                 IF match[o \o u]
                                 THEN QMul(prefactors[o \o u],
                                           Q(CountRows(cols, u), n_samples))
                                 ELSE Q(0, 1)])]
    IN  IF Len(self) # Len(other) THEN Raise("AssertionError")
        ELSE IF \E r \in 1..n_samples :
                   Len(samples[r]) # Len(Nsoutdims(Outdims(other)))
        THEN Raise("AssertionError")
        ELSE IF m.fm.outcome # "ok" THEN Raise(m.fm.outcome)
        ELSE IF m.fm.value.shape # Nsoutdims(Outdims(self)) \o other_outdims
        THEN Raise("AssertionError")
        ELSE IF \A o \in mine : ~m.given[o]
        THEN Ok(Counts([o \in mine |-> NaN], 0))
        ELSE IF m.es.outcome # "ok" THEN Raise(m.es.outcome)
        ELSE IF m.es.value = <<>> THEN Raise("AssertionError")
        ELSE IF \E j \in 1..k : support[j] >= Len(samples[1])
        THEN Raise("IndexError")
        ELSE IF \E r \in 1..n_samples : cols[r] \notin theirs
        THEN Raise("IndexError")
        ELSE IF QSumOver(mine, counts) # m.es.value[1] THEN Raise("AssertionError")
        ELSE Ok(Counts([o \in mine |-> IF m.given[o] THEN counts[o] ELSE NaN],
                       Cardinality({r \in 1..n_samples :
                                      \E o \in mine : match[o \o cols[r]]})))

\* MPPovm.counts_from
CountsFrom(self, other, samples) ==
    CHOOSE r \in {CountsFromMatched(self, other, samples, m) :
                    m \in {Matched(self, other)}} : TRUE

\* CountSamples without the assertion on the sum
CountSamplesUnchecked(self, samples) ==
    LET nsoutdims == Nsoutdims(Outdims(self))
        counts == [out \in Tuples(nsoutdims) |-> CountRows(samples, out)]
    IN  IF \E r \in 1..Len(samples) : Len(samples[r]) # Len(nsoutdims)
        THEN Raise("AssertionError")
        ELSE Ok(counts)

\* MPPovm.count_samples
CountSamples(self, samples) ==
    LET nsoutdims == Nsoutdims(Outdims(self))
        counts == [out \in Tuples(nsoutdims) |-> CountRows(samples, out)]
    IN  IF \E r \in 1..Len(samples) : Len(samples[r]) # Len(nsoutdims)
        THEN Raise("AssertionError")
        ELSE IF SumOver(Tuples(nsoutdims), counts) # Len(samples)
        THEN Raise("AssertionError")
        ELSE Ok(counts)

\* the number of members of other that zip pairs with an entry of samples
Paired(other, samples) ==
    IF Len(other) < Len(samples) THEN Len(other) ELSE Len(samples)

\* EstprobFromCounts with a plain average over the contributing members
EstprobFromCountsUnweighted(self, other, samples, cf) ==
    LET mine == Tuples(Nsoutdims(Outdims(self)))
        paired == Paired(other, samples)
        counts == [pos \in 1..Len(other) |->
                     IF pos <= paired THEN cf[pos].value.counts
                     ELSE [o \in mine |-> Q(0, 1)]]
        n_samples == [pos \in 1..Len(other) |->
                        IF pos <= paired THEN cf[pos].value.n_samples_used ELSE 0]
        given == [pos \in 1..Len(other) |-> [o \in mine |-> counts[pos][o] # NaN]]
        n_samples_used ==
            [o \in mine |->
                SumOver(1..Len(other),
                        [pos \in 1..Len(other) |->
                           IF given[pos][o] THEN n_samples[pos] ELSE 0])]
        nansum == [o \in mine |->
                     QSumOver(1..Len(other),
                              [pos \in 1..Len(other) |->
                                 IF given[pos][o] THEN counts[pos][o]
                                 ELSE Q(0, 1)])]
        failed == {pos \in 1..paired : cf[pos].outcome # "ok"}
    IN  IF failed # {} THEN Raise(cf[Min(failed)].outcome)
        ELSE Ok([p_est |-> [o \in mine |->
                              IF n_samples_used[o] = 0 THEN NaN
                              ELSE QDiv(nansum[o],
                                        Q(Cardinality({pos \in 1..Len(other) :
                                                         given[pos][o]}), 1))],
                 n_samples_used |-> n_samples_used])

\* MPPovm.estprob_from_mpplist, cf[pos] being the result of
\* self.counts_from(other[pos], samples[pos]); a call that raises ends the loop
EstprobFromCounts(self, other, samples, cf) ==
    LET mine == Tuples(Nsoutdims(Outdims(self)))
        paired == Paired(other, samples)
        counts == [pos \in 1..Len(other) |->
                     IF pos <= paired THEN cf[pos].value.counts
                     ELSE [o \in mine |-> Q(0, 1)]]
        n_samples == [pos \in 1..Len(other) |->
                        IF pos <= paired THEN cf[pos].value.n_samples_used ELSE 0]
        given == [pos \in 1..Len(other) |-> [o \in mine |-> counts[pos][o] # NaN]]
        n_samples_used ==
            [o \in mine |->
                SumOver(1..Len(other),
                        [pos \in 1..Len(other) |->
                           IF given[pos][o] THEN n_samples[pos] ELSE 0])]
        nansum == [o \in mine |->
                     QSumOver(1..Len(other),
                              [pos \in 1..Len(other) |->
                                 IF given[pos][o]
                                 THEN QMul(counts[pos][o], Q(n_samples[pos], 1))
                                 ELSE Q(0, 1)])]
        failed == {pos \in 1..paired : cf[pos].outcome # "ok"}
    IN  IF failed # {} THEN Raise(cf[Min(failed)].outcome)
        ELSE Ok([p_est |-> [o \in mine |->
                              IF n_samples_used[o] = 0 THEN NaN
                              ELSE QDiv(nansum[o], Q(n_samples_used[o], 1))],
                 n_samples_used |-> n_samples_used])

\* what counts_from derives from self and each member of other
MatchedEach(self, other) ==
    [pos \in 1..Len(other) |-> Matched(self, other[pos])]

\* the counts_from results of the members that zip pairs with samples
CountsFromEach(self, other, samples, ms) ==
    [pos \in 1..Paired(other, samples) |->
        CountsFromMatched(self, other[pos], samples[pos], ms[pos])]

\* MPPovm.estprob_from_mpplist; other is the sequence other.mpps
EstprobFromMpplist(self, other, samples) ==
    CHOOSE r \in {EstprobFromCounts(self, other, samples, cf) :
                    cf \in {CountsFromEach(self, other, samples, ms) :
                              ms \in {MatchedEach(self, other)}}} : TRUE

\* the methods and properties class MPPovm defines; MPArray, its base class,
\* is the array type and has no estimation methods
MPPovmAttrs ==
    {"outdims", "nsoutdims", "hdims", "elements", "probability_map",
     "from_local_povm", "eye", "embed", "block", "repeat", "expectations",
     "probab", "find_matching_elements", "_sample_cond_single", "_sample_cond",
     "_sample_direct", "sample", "est_fun", "_estfun_from_estimator",
     "_fill_out_holes", "_elemsum_identity", "counts_from", "count_samples",
     "estprob_from_mpplist"}

\* the generator object MPPovmList.estprob_from returns; self and other are
\* the sequences self.mpps and other.mpps
EstprobFromGen(self, other, samples) ==
    [kind |-> "list.estprob_from", pc |-> "created", self |-> self,
     other |-> other, samples |-> samples, seq |-> <<>>, stops |-> 0,
     err |-> "none"]

\* yield r's value, or end the generator with the exception r raised
Yield(g, r) ==
    IF r.outcome = "ok"
    THEN Step([g EXCEPT !.pc = "suspended", !.seq = Append(@, r.value)],
              "ok", r.value)
    ELSE Step([g EXCEPT !.pc = "finished", !.err = r.outcome], r.outcome, <<>>)

\* one next() on the generator of MPPovmList.estprob_from: the assertion on
\* the first members, then mpp.estprob_from_mpps for the next member
EstprobFromNext(g) ==
    IF g.pc \in {"created", "suspended"}
    THEN IF g.pc = "created" /\ (g.self = <<>> \/ g.other = <<>>)
         THEN Step([g EXCEPT !.pc = "finished", !.err = "IndexError"],
                   "IndexError", <<>>)
         ELSE IF g.pc = "created" /\ Len(g.self[1]) # Len(g.other[1])
         THEN Step([g EXCEPT !.pc = "finished", !.err = "AssertionError"],
                   "AssertionError", <<>>)
         ELSE IF Len(g.seq) < Len(g.self)
         THEN IF "estprob_from_mpps" \notin MPPovmAttrs
              THEN Step([g EXCEPT !.pc = "finished", !.err = "AttributeError"],
                        "AttributeError", <<>>)
              ELSE Yield(g, EstprobFromMpplist(g.self[Len(g.seq) + 1],
                                               g.other, g.samples))
         ELSE Step([g EXCEPT !.pc = "finished"], "StopIteration", <<>>)
    ELSE Step(g, "StopIteration", <<>>)

----------------------------------------------------------------------------
(* The calibration specification: one call of find_matching_elements,      *)
(* counts_from, count_samples or estprob_from_mpplist with arguments of    *)
(* the model's choice                                                      *)

\* the single-qubit POVMs the sites are drawn from
CalKinds == {"eye", "X", "Z", "XZ"}

\* the MPPovms: one or two sites, at least one of them measured, and the
\* POVM with proportional elements alone and next to X
CalPovms ==
    {FromKinds(c) : c \in ({<<a>> : a \in CalKinds} \cup
                           {<<a, b>> : a \in CalKinds, b \in CalKinds} \cup
                           {<<"XX">>, <<"XX", "X">>, <<"ZP">>})
                          \ {<<"eye">>, <<"eye", "eye">>}}

\* one sequence is not after the other in the order of the dictionary
RECURSIVE LexLeq(_, _)
LexLeq(a, b) ==
    IF a = <<>> THEN TRUE
    ELSE IF b = <<>> THEN FALSE
    ELSE IF Head(a) # Head(b) THEN Head(a) < Head(b)
    ELSE LexLeq(Tail(a), Tail(b))

\* the samples arrays with n rows drawn from `rows`; counting rows does not
\* depend on their order, so they come in one order only
Arrays(rows, n) ==
    {a \in [1..n -> rows] : \A r \in 1..(n - 1) : LexLeq(a[r], a[r + 1])}

\* the samples arrays for the MPPovm m
SamplesOf(m) ==
    UNION {Arrays(Tuples(Nsoutdims(Outdims(m))), n) : n \in 1..MaxSamples}

InitCal ==
    /\ gen = NoGen
    /\ call = NoCall
    /\ mpp = <<>> /\ lst = NoList
    /\ objs = <<>> /\ clsPovms = <<"X", "Y">> /\ clsWeights = <<Half, Half>>

\* the exclude_dup arguments
ExcludeDupArgs == {<<>>, <<"self">>, <<"other">>, <<"self", "other">>}

CallFindMatchingElements(self, other, exclude_dup) ==
    /\ call' = [op |-> "find_matching_elements", self |-> self, other |-> other,
                exclude_dup |-> exclude_dup,
                res |-> FindMatchingElements(self, other, exclude_dup)]
    /\ gen' = NoGen
    /\ UNCHANGED <<structVars, localVars>>

CallCountsFrom(self, other, samples, m) ==
    /\ call' = [op |-> "counts_from", self |-> self, other |-> other,
                samples |-> samples, m |-> m,
                res |-> CountsFromMatched(self, other, samples, m)]
    /\ gen' = NoGen
    /\ UNCHANGED <<structVars, localVars>>

\* rows with a first entry that is no outcome: the dimension itself, 0xff
BadRows(nsoutdims) ==
    {[row EXCEPT ![1] = v] : row \in Tuples(nsoutdims),
                             v \in {nsoutdims[1], Unfilled}}

CallCountSamples(self, samples) ==
    /\ call' = [op |-> "count_samples", self |-> self, samples |-> samples,
                res |-> CountSamples(self, samples)]
    /\ gen' = NoGen
    /\ UNCHANGED <<structVars, localVars>>

\* the single-site MPPovms the lists of estprob_from_mpplist are made of
CalSingles == {FromKinds(<<a>>) : a \in {"X", "Z", "XZ", "XX"}}

\* other.mpps: one or two members
CalLists == {<<a>> : a \in CalSingles} \cup
            {<<a, b>> : a \in CalSingles, b \in CalSingles}

\* samples for the first n members of other
SamplesFor(other, n) ==
    {ss \in [1..n -> UNION {SamplesOf(other[pos]) : pos \in 1..n}] :
        \A pos \in 1..n : ss[pos] \in SamplesOf(other[pos])}

CallEstprobFromMpplist(self, other, samples, cf) ==
    /\ call' = [op |-> "estprob_from_mpplist", self |-> self, other |-> other,
                samples |-> samples, cf |-> cf,
                res |-> EstprobFromCounts(self, other, samples, cf)]
    /\ gen' = NoGen
    /\ UNCHANGED <<structVars, localVars>>

\* the lists self of estprob_from: none, one or two single-site members, or
\* one member of two sites
EstLists == {<<>>} \cup CalLists \cup {<<FromKinds(<<"X", "Z">>)>>}

\* one array of one row for every member of other
OneRowSamples(other) ==
    {ss \in [1..Len(other) ->
               UNION {Arrays(Tuples(Nsoutdims(Outdims(other[pos]))), 1) :
                        pos \in 1..Len(other)}] :
        \A pos \in 1..Len(other) :
           ss[pos] \in Arrays(Tuples(Nsoutdims(Outdims(other[pos]))), 1)}

CallEstprobFrom(self, other, samples) ==
    /\ gen' = EstprobFromGen(self, other, samples)
    /\ call' = [op |-> "list.estprob_from", res |-> Ok(<<"generator">>)]
    /\ UNCHANGED <<structVars, localVars>>

NextOfEstprobFrom ==
    /\ gen.kind = "list.estprob_from"
    /\ gen.stops < MaxStops
    /\ \E r \in {EstprobFromNext(gen)} :
          /\ gen' = [r.gen EXCEPT
                       !.stops = IF r.outcome = "StopIteration" THEN @ + 1 ELSE @]
          /\ call' = [op |-> "list.estprob_from.next",
                      res |-> [outcome |-> r.outcome, value |-> r.value]]
    /\ UNCHANGED <<structVars, localVars>>

NextCal ==
    \/ /\ Idle
       /\ \E self \in CalPovms, other \in CalPovms :
             \E exclude_dup \in ExcludeDupArgs :
                CallFindMatchingElements(self, other, exclude_dup)
    \/ /\ Idle
       /\ \E self \in CalPovms, other \in CalPovms :
             \E m \in {Matched(self, other)} :
                \E samples \in SamplesOf(other) :
                   CallCountsFrom(self, other, samples, m)
    \/ /\ Idle
       /\ \E self \in CalPovms, n \in 1..MaxSamples :
             \E samples \in Arrays(Tuples(Nsoutdims(Outdims(self)))
                                    \cup BadRows(Nsoutdims(Outdims(self))), n) :
                CallCountSamples(self, samples)
    \/ /\ Idle
       /\ \E self \in CalSingles, other \in CalLists :
             \E ms \in {MatchedEach(self, other)}, n \in 1..Len(other) :
                \E samples \in SamplesFor(other, n) :
                   \E cf \in {CountsFromEach(self, other, samples, ms)} :
                      CallEstprobFromMpplist(self, other, samples, cf)
    \/ /\ Idle
       /\ \E self \in EstLists, other \in EstLists :
             \E samples \in OneRowSamples(other) :
                CallEstprobFrom(self, other, samples)
    \/ NextOfEstprobFrom

----------------------------------------------------------------------------
(* Claims about calibration and counting *)

Swap(ix) ==
    SubSeq(ix, (Len(ix) \div 2) + 1, Len(ix)) \o SubSeq(ix, 1, Len(ix) \div 2)

\* C13: for a and b of the same length and Hilbert dimensions, where
\* a.find_matching_elements(b) flags outcome i of a as matching outcome j of
\* b and b.find_matching_elements(a) flags j as matching i, the two
\* prefactors multiply to 1; and a prefactor is NaN exactly where match is
\* False.
C13_PrefactorsReciprocal ==
    (call.op = "find_matching_elements" /\ call.res.outcome = "ok")
    => LET ab == call.res.value
       IN  /\ \A ix \in DOMAIN ab.match :
                (ab.prefactors[ix] = NaN) <=> ~ab.match[ix]
           /\ \A ba \in {FindMatchingElements(call.other, call.self, <<>>)} :
                ba.outcome = "ok"
                => \A ix \in DOMAIN ab.match :
                     (/\ Swap(ix) \in DOMAIN ba.value.match
                      /\ ab.match[ix] /\ ba.value.match[Swap(ix)])
                     => QMul(ab.prefactors[ix], ba.value.prefactors[Swap(ix)])
                        = QOne

C13_Witness ==
    /\ call.op = "find_matching_elements" /\ call.res.outcome = "ok"
    /\ call.self = FromKinds(<<"X", "eye">>)
    /\ call.other = FromKinds(<<"XZ", "eye">>)
    /\ call.res.value.match[<<1, 1>>] /\ call.res.value.prefactors[<<1, 1>>] = Q(2, 1)
    /\ call.res.value.prefactors[<<1, 2>>] = NaN

\* no two different outcomes of self have proportional elements: self's
\* elements match themselves only
NoTwoProportional(m) ==
    /\ m.fm.outcome = "ok"
    /\ \A ix \in DOMAIN m.fm.value.match : m.fm.value.match[ix] => Swap(ix) = ix

\* the measured sites are the leading sites: no unmeasured site before one
Leading(support) == \A j \in 1..Len(support) : support[j] = j - 1

MatchesOf(o) ==
    {u \in Tuples([j \in 1..Len(Support(Outdims(call.self))) |->
                     Outdims(call.other)[Support(Outdims(call.self))[j] + 1]]) :
        call.m.fm.value.match[o \o u]}

\* C15: in the counts counts_from returns, an entry is NaN if and only if no
\* element of other matches that outcome of self; a matched outcome that
\* does not occur in the samples has the count 0.0; when no outcome of self
\* is matched, all entries are NaN and n_samples_used is 0.
C15_NaNIffUnmatched ==
    (call.op = "counts_from" /\ call.res.outcome = "ok")
    => LET counts == call.res.value.counts
       IN  /\ \A o \in DOMAIN counts : (counts[o] = NaN) <=> MatchesOf(o) = {}
           /\ \A o \in DOMAIN counts :
                (/\ MatchesOf(o) # {}
                 /\ \A r \in 1..Len(call.samples) :
                      Columns(call.samples, Support(Outdims(call.self)))[r]
                      \notin MatchesOf(o))
                => counts[o] = Q(0, 1)
           /\ (\A o \in DOMAIN counts : MatchesOf(o) = {})
              => call.res.value.n_samples_used = 0

C15_Witness ==
    /\ call.op = "counts_from" /\ call.res.outcome = "ok"
    /\ call.self = FromKinds(<<"XZ">>) /\ call.other = FromKinds(<<"X">>)
    /\ call.samples = <<(<<0>>), (<<0>>)>>
    /\ call.res.value.counts[<<0>>] = Q(1, 2)
    /\ call.res.value.counts[<<1>>] = Q(0, 1)
    /\ call.res.value.counts[<<2>>] = NaN

\* C16: for every pair (self, other) for which conversion is possible and
\* every samples array for other, counts_from returns counts that sum, over
\* the entries that are not missing, to the fraction of the identity the
\* matched elements of self sum to; its assertion on that sum never fails.
C16_CountsSumToFraction ==
    (/\ call.op = "counts_from"
     /\ call.m.fm.outcome = "ok" /\ call.m.es.outcome = "ok"
     /\ call.m.es.value # <<>>)
    => /\ call.res.outcome = "ok"
       /\ QSumOver({o \in DOMAIN call.res.value.counts :
                      call.res.value.counts[o] # NaN},
                   call.res.value.counts) = call.m.es.value[1]

\* C17: count_samples returns a tensor of shape nsoutdims whose entry at an
\* outcome is the number of rows of samples equal to it, and the entries sum
\* to n_samples; if a row has a value outside its column's range, such as
\* 0xff, the call fails.
C17_CountSamplesHistogram ==
    call.op = "count_samples"
    => LET nsoutdims == Nsoutdims(Outdims(call.self))
           n_samples == Len(call.samples)
       IN  IF \A r \in 1..n_samples : call.samples[r] \in Tuples(nsoutdims)
           THEN /\ call.res.outcome = "ok"
                /\ DOMAIN call.res.value = Tuples(nsoutdims)
                /\ \A out \in Tuples(nsoutdims) :
                     call.res.value[out]
                     = Cardinality({r \in 1..n_samples : call.samples[r] = out})
                /\ SumOver(Tuples(nsoutdims), call.res.value) = n_samples
           ELSE call.res.outcome = "AssertionError"

C17_Witness ==
    /\ call.op = "count_samples" /\ call.self = FromKinds(<<"X", "Z">>)
    /\ call.samples = <<(<<1, 0>>), (<<Unfilled, 1>>)>>
    /\ call.res.outcome = "AssertionError"

\* the members of other, by position, whose counts_from result has a number
\* at the outcome o of self
Contributing(o) ==
    {pos \in 1..Len(call.cf) : call.cf[pos].value.counts[o] # NaN}

\* C18: when estprob_from_mpplist(other, samples) returns, then for each
\* outcome o of self n_samples_used[o] is the sum of the sample counts n_s
\* that counts_from returned for exactly the members s whose counts are not
\* missing at o, and p_est[o] is the sum over those members of
\* counts_s[o] * n_s divided by n_samples_used[o] (NaN for 0.0 / 0); an
\* outcome with no contributing member has n_samples_used 0 and p_est NaN
C18_WeightedAverage ==
    (call.op = "estprob_from_mpplist" /\ call.res.outcome = "ok") =>
       \A o \in Tuples(Nsoutdims(Outdims(call.self))) :
          LET n == [pos \in 1..Len(call.cf) |->
                      call.cf[pos].value.n_samples_used]
              weighted == [pos \in 1..Len(call.cf) |->
                             IF pos \in Contributing(o)
                             THEN QMul(call.cf[pos].value.counts[o],
                                       Q(n[pos], 1))
                             ELSE Q(0, 1)]
              used == SumOver(Contributing(o), n)
          IN  /\ call.res.value.n_samples_used[o] = used
              /\ call.res.value.p_est[o] =
                    IF used = 0 THEN NaN
                    ELSE QDiv(QSumOver(Contributing(o), weighted), Q(used, 1))
              /\ Contributing(o) = {} =>
                    /\ call.res.value.n_samples_used[o] = 0
                    /\ call.res.value.p_est[o] = NaN

\* two members with different sample counts and different frequencies
\* contribute to one outcome, and another outcome has no contributing member
C18_Witness ==
    /\ call.op = "estprob_from_mpplist" /\ call.res.outcome = "ok"
    /\ \E o, u \in Tuples(Nsoutdims(Outdims(call.self))) :
          /\ Cardinality(Contributing(o)) = 2
          /\ call.cf[1].value.n_samples_used # call.cf[2].value.n_samples_used
          /\ call.cf[1].value.counts[o] # call.cf[2].value.counts[o]
          /\ Contributing(u) = {} /\ call.res.value.p_est[u] = NaN

\* C19: MPPovmList.estprob_from(other, samples) yields, for each member of
\* self in member order, the (p_est, n_samples_used) pair that this member's
\* estprob_from_mpplist computes from other and samples, and completes
\* without error for every pair of lists of equal site count
C19_EstprobFromYieldsPerMember ==
    (/\ gen.kind = "list.estprob_from"
     /\ gen.self # <<>> /\ gen.other # <<>>
     /\ Len(gen.self[1]) = Len(gen.other[1]))
    => /\ gen.err = "none"
       /\ \A n \in 1..Len(gen.seq) :
             EstprobFromMpplist(gen.self[n], gen.other, gen.samples)
                = Ok(gen.seq[n])
       /\ gen.stops > 0 => Len(gen.seq) = Len(gen.self)

\* the sum of the elements of self at the outcomes other matches
MatchedSum ==
    VecSumSet(call.self, {o \in DOMAIN call.m.given : call.m.given[o]},
              Support(Outdims(call.self)))

\* the vector v is a multiple of the identity on n sites
MultipleOfIdentity(v, n) ==
    \A eye \in {KronAll([i \in 1..n |-> LocalElems("eye")[1]])} :
       \A i \in 1..Len(v), j \in 1..Len(v) : v[i] * eye[j] = v[j] * eye[i]

\* C26: counts_from(other, samples) fails with an assertion and returns no
\* counts whenever at least one outcome of self is matched by other but the
\* matched elements of self do not sum to a multiple of the identity;
\* _elemsum_identity returns None in exactly that case, returns 1 when
\* every element is selected, and rejects an empty selection
C26_UnconvertibleFails ==
    (call.op = "counts_from" /\ call.m.fm.outcome = "ok") =>
       \A S \in {{o \in DOMAIN call.m.given : call.m.given[o]}} :
          /\ S = {} <=> call.m.es = Raise("AssertionError")
          /\ S # {} =>
                /\ call.m.es.outcome = "ok"
                /\ call.m.es.value = <<>>
                   <=> ~MultipleOfIdentity(MatchedSum, Len(call.self))
                /\ ~MultipleOfIdentity(MatchedSum, Len(call.self))
                   => call.res = Raise("AssertionError")
                /\ S = DOMAIN call.m.given => call.m.es.value = <<QOne>>

\* Z against a POVM that has an element along |0><0| and none along |1><1|
C26_Witness ==
    /\ call.op = "counts_from"
    /\ call.self = FromKinds(<<"Z">>) /\ call.other = FromKinds(<<"ZP">>)
    /\ call.m.given[<<0>>] /\ ~call.m.given[<<1>>]
    /\ call.m.es = Ok(<<>>)
    /\ call.res = Raise("AssertionError")

\* samples is an array for other: one column per measured site of other,
\* every entry an outcome of that site
SamplesFit(other, samples) ==
    \A r \in 1..Len(samples) :
       /\ Len(samples[r]) = Len(Nsoutdims(Outdims(other)))
       /\ \A j \in 1..Len(samples[r]) :
             samples[r][j] < Nsoutdims(Outdims(other))[j]

\* C27: counts_from(other, samples) accepts samples of shape
\* (n_samples, len(other.nsoutdims)) for every other of the same length,
\* also one with unmeasured sites, and reads other's outcome at a measured
\* site of self from the column whose index is the rank of the site among
\* other's measured sites: no such call ends in an IndexError
C27_SamplesIndexedByRank ==
    (/\ call.op = "counts_from"
     /\ Len(call.self) = Len(call.other)
     /\ SamplesFit(call.other, call.samples))
    => call.res.outcome # "IndexError"

\* C24: find_matching_elements called with exclude_dup containing 'self'
\* and/or 'other' returns (match, prefactors) as without the option when the
\* named POVM has no two elements proportional to a common element of its
\* counterpart, fails with the linearly-dependent-pair assertion when it
\* has, and never fails for another reason than the call without the option
C24_ExcludeDupOnlyChecksDuplicates ==
    (call.op = "find_matching_elements" /\ call.exclude_dup # <<>>) =>
       \A plain \in {FindMatchingElements(call.self, call.other, <<>>)} :
          IF plain.outcome # "ok" THEN call.res = plain
          ELSE IF \/ /\ \E e \in 1..Len(call.exclude_dup) :
                           call.exclude_dup[e] = "self"
                     /\ DupInSelf(plain.value.shape, plain.value.match,
                                  Len(Support(Outdims(call.self))))
                  \/ /\ \E e \in 1..Len(call.exclude_dup) :
                           call.exclude_dup[e] = "other"
                     /\ DupInOther(plain.value.shape, plain.value.match,
                                   Len(Support(Outdims(call.self))))
          THEN call.res = Raise("AssertionError")
          ELSE call.res = plain

----------------------------------------------------------------------------
(* Estimation: MPPovm.est_fun.  Floating-point numbers are exact rationals  *)
(* extended by the values division by zero produces: [num |-> 1, den |-> 0] *)
(* is inf, [num |-> -1, den |-> 0] is -inf and NaN is 0.0 / 0.              *)

Inf == [num |-> 1, den |-> 0]
NegInf == [num |-> -1, den |-> 0]

XQ(n, d) == IF n = 0 /\ d = 0 THEN NaN ELSE Q(n, d)
XNeg(a) == [num |-> -a.num, den |-> a.den]
XMul(a, b) == XQ(a.num * b.num, a.den * b.den)
XDiv(a, b) == XQ(a.num * b.den, a.den * b.num)
XAdd(a, b) ==
    IF a = NaN \/ b = NaN THEN NaN
    ELSE IF a.den = 0 /\ b.den = 0 THEN (IF a = b THEN a ELSE NaN)
    ELSE IF a.den = 0 THEN a
    ELSE IF b.den = 0 THEN b
    ELSE QAdd(a, b)
XSub(a, b) == XAdd(a, XNeg(b))

\* a < b as floating-point numbers compare: never with a NaN
XLess(a, b) ==
    /\ a # NaN /\ b # NaN /\ a # b
    /\ IF a.den = 0 THEN a = NegInf
       ELSE IF b.den = 0 THEN b = Inf
       ELSE a.num * b.den < b.num * a.den
XGeq(a, b) == a # NaN /\ b # NaN /\ ~XLess(a, b)

\* the sum of f over the positions 1..n, added in order
RECURSIVE XSum(_, _)
XSum(n, f) == IF n = 0 THEN Q(0, 1) ELSE XAdd(XSum(n - 1, f), f[n])

\* np.inner of two vectors of the same length
Inner(a, b) == XSum(Len(a), [i \in 1..Len(a) |-> XMul(a[i], b[i])])

\* np.inner(coeff, np.dot(cov, coeff))
QuadForm(coeff, cov) ==
    Inner(coeff, [i \in 1..Len(cov) |-> Inner(cov[i], coeff)])

\* a coefficient array: the kind of its dtype and its entries
Coeff(kind, v) == [kind |-> kind, v |-> v]

\* fun(samples) for a function of the outcome, given by its values
FunOut(fun, samples) == [r \in 1..Len(samples) |-> Q(fun[samples[r]], 1)]

\* Moments averaging over the number of rows also when weights are given
MomentsRowCount(funs, samples, weights) ==
    LET n_funs == Len(funs)
        n_samples == Len(samples)
        n_avg_samples == Q(n_samples, 1)
        fun_out == [pos \in 1..n_funs |-> FunOut(funs[pos], samples)]
        w_fun_out == IF weights = <<>> THEN fun_out
                     ELSE [pos \in 1..n_funs |->
                             [r \in 1..n_samples |->
                                XMul(fun_out[pos][r], weights[1][r])]]
        ept == [pos \in 1..n_funs |->
                  XDiv(XSum(n_samples, w_fun_out[pos]), n_avg_samples)]
        scale == XDiv(XDiv(n_avg_samples, XSub(n_avg_samples, Q(1, 1))),
                      n_avg_samples)
        cov == [i \in 1..n_funs |-> [j \in 1..n_funs |->
                  XMul(XSub(XDiv(Inner(fun_out[i], w_fun_out[j]), n_avg_samples),
                            XMul(ept[i], ept[j])),
                       scale)]]
    IN  IF weights = <<>> /\ n_samples = 1 THEN Raise("ZeroDivisionError")
        ELSE Ok([ept |-> ept, cov |-> cov])

\* the mean and the covariance est_fun computes before it looks at coeff;
\* n_avg is a Python int without weights and a NumPy number with weights
Moments(funs, samples, weights) ==
    LET n_funs == Len(funs)
        n_samples == Len(samples)
        n_avg_samples == IF weights = <<>> THEN Q(n_samples, 1)
                         ELSE XSum(n_samples, weights[1])
        fun_out == [pos \in 1..n_funs |-> FunOut(funs[pos], samples)]
        w_fun_out == IF weights = <<>> THEN fun_out
                     ELSE [pos \in 1..n_funs |->
                             [r \in 1..n_samples |->
                                XMul(fun_out[pos][r], weights[1][r])]]
        ept == [pos \in 1..n_funs |->
                  XDiv(XSum(n_samples, w_fun_out[pos]), n_avg_samples)]
        scale == XDiv(XDiv(n_avg_samples, XSub(n_avg_samples, Q(1, 1))),
                      n_avg_samples)
        cov == [i \in 1..n_funs |-> [j \in 1..n_funs |->
                  XMul(XSub(XDiv(Inner(fun_out[i], w_fun_out[j]), n_avg_samples),
                            XMul(ept[i], ept[j])),
                       scale)]]
    IN  IF weights = <<>> /\ n_samples = 1 THEN Raise("ZeroDivisionError")
        ELSE Ok([ept |-> ept, cov |-> cov])

\* the assertions on the arguments of est_fun fail
BadArguments(self, coeff, funs, samples, weights) ==
    \/ coeff # <<>> /\ (coeff[1].kind # "f" \/ Len(coeff[1].v) # Len(funs))
    \/ \E r \in 1..Len(samples) :
          Len(samples[r]) # Len(Nsoutdims(Outdims(self)))
    \/ weights # <<>> /\ Len(weights[1]) # Len(samples)
    \/ weights # <<>> /\ \E r \in 1..Len(weights[1]) :
                            ~XGeq(weights[1][r], Q(0, 1))

\* EstFunFrom returning the variance estimate as it is
EstFunFromUnclamped(self, coeff, funs, samples, weights, eps, m) ==
    LET est == Inner(coeff[1].v, m.value.ept)
        var_est == QuadForm(coeff[1].v, m.value.cov)
    IN  IF BadArguments(self, coeff, funs, samples, weights)
        THEN Raise("AssertionError")
        ELSE IF m.outcome # "ok" THEN m
        ELSE IF coeff = <<>> THEN m
        ELSE IF ~XGeq(var_est, XNeg(eps)) THEN Raise("AssertionError")
        ELSE Ok([est |-> est, var |-> var_est])

\* EstFunFrom replacing every negative variance estimate by 0
EstFunFromClampsAll(self, coeff, funs, samples, weights, eps, m) ==
    LET est == Inner(coeff[1].v, m.value.ept)
        var_est == QuadForm(coeff[1].v, m.value.cov)
    IN  IF BadArguments(self, coeff, funs, samples, weights)
        THEN Raise("AssertionError")
        ELSE IF m.outcome # "ok" THEN m
        ELSE IF coeff = <<>> THEN m
        ELSE IF var_est = NaN THEN Raise("AssertionError")
        ELSE Ok([est |-> est,
                 var |-> IF XLess(var_est, Q(0, 1)) THEN Q(0, 1) ELSE var_est])

\* MPPovm.est_fun, m being Moments(funs, samples, weights); coeff and
\* weights are <<>> for None
EstFunFrom(self, coeff, funs, samples, weights, eps, m) ==
    LET est == Inner(coeff[1].v, m.value.ept)
        var_est == QuadForm(coeff[1].v, m.value.cov)
    IN  IF BadArguments(self, coeff, funs, samples, weights)
        THEN Raise("AssertionError")
        ELSE IF m.outcome # "ok" THEN m
        ELSE IF coeff = <<>> THEN m
        ELSE IF ~XGeq(var_est, XNeg(eps)) THEN Raise("AssertionError")
        ELSE Ok([est |-> est,
                 var |-> IF XLess(var_est, Q(0, 1)) THEN Q(0, 1) ELSE var_est])

\* MPPovm.est_fun
EstFun(self, coeff, funs, samples, weights, eps) ==
    CHOOSE r \in {EstFunFrom(self, coeff, funs, samples, weights, eps, m) :
                    m \in {Moments(funs, samples, weights)}} : TRUE

----------------------------------------------------------------------------
(* The estimation specification: est_fun is called with coeff=None and,   *)
(* on the same arguments, with the coeff of the model's choice             *)

\* the MPPovm whose samples are evaluated: X on one site
EstPovm == FromKinds(<<"X">>)

\* the functions of the outcome: indicator functions of sets of outcomes
EstFuns == [Tuples(Nsoutdims(Outdims(EstPovm))) -> {0, 1}]

\* one function, or the indicator function of the last outcome and another
FunLists ==
    {<<f>> : f \in EstFuns} \cup
    {<<[o \in Tuples(Nsoutdims(Outdims(EstPovm))) |->
          IF o = <<Outdims(EstPovm)[1] - 1>> THEN 1 ELSE 0], g>> : g \in EstFuns}

\* the entries of coeff and of weights
CoeffValues == {Q(-1, 1), Q(0, 1), Q(1, 1)}
WeightValues == {Q(0, 1), Q(1, 4), Q(1, 2), Q(1, 1), Q(2, 1)}

\* the float arrays of n entries
RECURSIVE CoeffVectors(_)
CoeffVectors(n) ==
    IF n = 0 THEN {<<>>}
    ELSE {<<a>> \o t : a \in CoeffValues, t \in CoeffVectors(n - 1)}

\* coeff for n_funs functions: None, a float array with one entry for every
\* function, an int array, or a float array with one entry too many
CoeffArgs(n_funs) ==
    {<<>>} \cup
    {<<Coeff("f", v)>> : v \in CoeffVectors(n_funs)} \cup
    {<<Coeff("i", [i \in 1..n_funs |-> Q(1, 1)])>>,
     <<Coeff("f", [i \in 1..(n_funs + 1) |-> Q(1, 1)])>>}

\* weights: None, or one weight for every sample
WeightArgs(n) == {<<>>} \cup {<<w>> : w \in [1..n -> WeightValues]}

EpsArgs == {Q(1, 100), Q(1, 1)}

InitEst ==
    /\ gen = NoGen
    /\ call = NoCall
    /\ mpp = <<>> /\ lst = NoList
    /\ objs = <<>> /\ clsPovms = <<"X", "Y">> /\ clsWeights = <<Half, Half>>

CallEstFun(self, coeff, funs, samples, weights, eps, m) ==
    /\ call' = [op |-> "est_fun", self |-> self, coeff |-> coeff, funs |-> funs,
                samples |-> samples, weights |-> weights, eps |-> eps,
                moments |-> EstFunFrom(self, <<>>, funs, samples, weights, eps, m),
                res |-> EstFunFrom(self, coeff, funs, samples, weights, eps, m)]
    /\ gen' = NoGen
    /\ UNCHANGED <<structVars, localVars>>

\* the array that holds rows[i] mult[i] times, for every i in turn
RECURSIVE Expand(_, _)
Expand(rows, mult) ==
    IF rows = <<>> THEN <<>>
    ELSE [r \in 1..Head(mult) |-> Head(rows)] \o Expand(Tail(rows), Tail(mult))

\* distinct rows of samples of EstPovm, in order
DistinctRows ==
    {a \in UNION {[1..n -> Tuples(Nsoutdims(Outdims(EstPovm)))] :
                    n \in 1..Outdims(EstPovm)[1]} :
        \A r \in 1..(Len(a) - 1) : a[r] # a[r + 1] /\ LexLeq(a[r], a[r + 1])}

\* est_fun on an array with repeated rows and, with the multiplicities as
\* weights, on its distinct rows
CallEstFunCounted(self, coeff, funs, rows, mult, eps, m, mw) ==
    /\ call' = [op |-> "est_fun.counted", self |-> self, coeff |-> coeff,
                funs |-> funs, rows |-> rows, mult |-> mult, eps |-> eps,
                moments |-> mw,
                res |-> EstFunFrom(self, coeff, funs, Expand(rows, mult), <<>>,
                                   eps, m),
                counted |-> EstFunFrom(self, coeff, funs, rows,
                                       <<[i \in 1..Len(rows) |-> Q(mult[i], 1)]>>,
                                       eps, mw)]
    /\ gen' = NoGen
    /\ UNCHANGED <<structVars, localVars>>

NextEst ==
    \/ /\ Idle
       /\ \E funs \in FunLists, samples \in SamplesOf(EstPovm) :
             \E weights \in WeightArgs(Len(samples)) :
                \E m \in {Moments(funs, samples, weights)} :
                   \E coeff \in CoeffArgs(Len(funs)), eps \in EpsArgs :
                      CallEstFun(EstPovm, coeff, funs, samples, weights, eps, m)
    \/ /\ Idle
       /\ \E funs \in FunLists, rows \in DistinctRows, eps \in EpsArgs :
             \E mult \in [1..Len(rows) -> 1..MaxRepeat] :
                \E m \in {Moments(funs, Expand(rows, mult), <<>>)},
                   mw \in {Moments(funs, rows,
                                   <<[i \in 1..Len(rows) |-> Q(mult[i], 1)]>>)} :
                   \E coeff \in CoeffArgs(Len(funs)) :
                      CallEstFunCounted(EstPovm, coeff, funs, rows, mult, eps,
                                        m, mw)

----------------------------------------------------------------------------
(* Claims about est_fun *)

\* what est_fun(coeff=None) gives on the arguments of the call
MomentsOfCall == call.moments

\* the call passes a float array with one coefficient for every function
CoeffGiven ==
    /\ call.op = "est_fun" /\ call.coeff # <<>>
    /\ call.coeff[1].kind = "f" /\ Len(call.coeff[1].v) = Len(call.funs)

\* the sum of the weights of the call
WeightSum == XSum(Len(call.samples), call.weights[1])

\* C20 as stated: for any functions, samples, weights and coefficient vector
\* c, if est_fun(coeff=None) returns (mean, cov) then est_fun(coeff=c) on the
\* same arguments returns est = <c, mean> and var = c^T cov c, replaced by 0
\* when it lies in [-eps, 0)
C20_CoeffCallAlwaysReturns ==
    (CoeffGiven /\ MomentsOfCall.outcome = "ok") =>
       LET c == call.coeff[1].v
           v == QuadForm(c, MomentsOfCall.value.cov)
       IN  /\ call.res.outcome = "ok"
           /\ call.res.value.est = Inner(c, MomentsOfCall.value.ept)
           /\ call.res.value.var =
                 IF XLess(v, Q(0, 1)) /\ XGeq(v, XNeg(call.eps))
                 THEN Q(0, 1) ELSE v

\* C20, amended: for any functions, samples, weights and any float
\* coefficient vector c with one entry for every function, if
\* est_fun(coeff=None) returns (mean, cov) then est_fun(coeff=c) on the same
\* arguments fails its assertion var_est >= -eps when c^T cov c is below
\* -eps or NaN, which happens only with weights that sum to at most 1, and
\* otherwise returns est = <c, mean> and var = c^T cov c, replaced by 0
\* when it lies in [-eps, 0)
C20_CoeffCallConsistent ==
    (CoeffGiven /\ MomentsOfCall.outcome = "ok") =>
       LET c == call.coeff[1].v
           v == QuadForm(c, MomentsOfCall.value.cov)
       IN  IF XGeq(v, XNeg(call.eps))
           THEN /\ call.res.outcome = "ok"
                /\ call.res.value.est = Inner(c, MomentsOfCall.value.ept)
                /\ call.res.value.var =
                      IF XLess(v, Q(0, 1)) THEN Q(0, 1) ELSE v
           ELSE /\ call.res.outcome = "AssertionError"
                /\ call.weights # <<>>
                /\ XGeq(Q(1, 1), WeightSum)

\* two functions with a covariance that is not zero and a variance estimate
\* that is positive
C20_Witness ==
    /\ CoeffGiven /\ MomentsOfCall.outcome = "ok"
    /\ call.res.outcome = "ok"
    /\ Len(call.funs) = 2
    /\ call.coeff[1].v = <<Q(1, 1), Q(-1, 1)>>
    /\ MomentsOfCall.value.cov[1][2] \notin {Q(0, 1), NaN, Inf, NegInf}
    /\ XLess(Q(0, 1), call.res.value.var) /\ call.res.value.var # Inf

\* a variance estimate in [-eps, 0) is replaced by 0
C20_WitnessClamped ==
    /\ CoeffGiven /\ MomentsOfCall.outcome = "ok"
    /\ call.res.outcome = "ok" /\ call.res.value.var = Q(0, 1)
    /\ XLess(QuadForm(call.coeff[1].v, MomentsOfCall.value.cov), Q(0, 1))

\* the variance estimate est_fun computes from the moments of the call
VarOfCall == QuadForm(call.coeff[1].v, call.moments.value.cov)

\* C21: whenever est_fun with a coefficient vector returns, the reported
\* variance is >= 0; a computed value in [-eps, 0) is returned as 0, and a
\* computed value below -eps makes the call fail instead of being clamped
\* or returned
C21_VarianceNonNegative ==
    /\ (call.op = "est_fun" /\ call.coeff # <<>> /\ call.res.outcome = "ok")
       => XGeq(call.res.value.var, Q(0, 1))
    /\ (CoeffGiven /\ call.moments.outcome = "ok")
       => /\ (XLess(VarOfCall, Q(0, 1)) /\ XGeq(VarOfCall, XNeg(call.eps)))
             => call.res = Ok([est |-> Inner(call.coeff[1].v,
                                             call.moments.value.ept),
                               var |-> Q(0, 1)])
          /\ XLess(VarOfCall, XNeg(call.eps))
             => call.res = Raise("AssertionError")

\* a variance estimate of -1/2 with eps = 1 comes back as 0
C21_Witness ==
    /\ CoeffGiven /\ call.moments.outcome = "ok"
    /\ VarOfCall = Q(-1, 2) /\ call.eps = Q(1, 1)
    /\ call.res.outcome = "ok" /\ call.res.value.var = Q(0, 1)

\* a variance estimate below -eps fails the call
C21_WitnessFails ==
    /\ CoeffGiven /\ call.moments.outcome = "ok"
    /\ XLess(VarOfCall, XNeg(call.eps))
    /\ call.res = Raise("AssertionError")

\* the sum of the multiplicities of the call
Total == SumOver(1..Len(call.mult), call.mult)

\* C22: est_fun gives the same (est, var) for a samples array with repeated
\* rows as for the array of its distinct rows passed with weights equal to
\* the row multiplicities (where one call fails, so does the other); with
\* weights the averaging count n is weights.sum(), the mean is the weighted
\* sum divided by n, and the covariance is the weighted second moment minus
\* the product of the means, times n/(n-1) and divided by n
C22_WeightsAreMultiplicities ==
    (call.op = "est_fun.counted" /\ call.coeff # <<>>) =>
       /\ (call.res.outcome = "ok" \/ call.counted.outcome = "ok")
          => call.res = call.counted
       /\ call.res.outcome = "ok" <=> call.counted.outcome = "ok"
       /\ \A i \in 1..Len(call.funs) :
             LET f == [r \in 1..Len(call.rows) |-> call.funs[i][call.rows[r]]]
                 mean == Q(SumOver(1..Len(call.rows),
                                   [r \in 1..Len(call.rows) |->
                                      call.mult[r] * f[r]]), Total)
             IN  /\ call.moments.value.ept[i] = mean
                 /\ Total > 1 =>
                       call.moments.value.cov[i][i] =
                          QMul(QAdd(Q(SumOver(1..Len(call.rows),
                                              [r \in 1..Len(call.rows) |->
                                                 call.mult[r] * f[r] * f[r]]),
                                      Total),
                                    XNeg(QMul(mean, mean))),
                               Q(1, Total - 1))

\* rows with different multiplicities, a function that tells them apart and
\* a positive variance returned by both calls
C22_Witness ==
    /\ call.op = "est_fun.counted" /\ call.coeff # <<>>
    /\ call.res.outcome = "ok" /\ call.counted.outcome = "ok"
    /\ call.mult = <<2, 1>>
    /\ XLess(Q(0, 1), call.counted.value.var)

----------------------------------------------------------------------------
(* The memoized maps of a local POVM: probability_map and                  *)
(* get_linear_inversion_map.  numpy's pinv is kept symbolic: its result is *)
(* the record of its two arguments.                                        *)

\* the exponent of the default rcond, 1e-15
DefaultRcond == -15

\* the rcond arguments, by exponent
Rconds == {DefaultRcond, -3}

\* self.elements.conj()
Conj(elements) ==
    [k \in 1..Len(elements) |->
        [c \in 1..Len(elements[k]) |-> [elements[k][c] EXCEPT !.im = -@]]]

\* pinv(a, rcond)
Pinv(a, rcond) == [pinv_of |-> a, rcond |-> rcond]

\* an instance before any access: no _probability_map and no
\* _linear_inversion_map attribute; pm_made and lim_made count the
\* evaluations of elements.conj() and of pinv, asked the rcond arguments
Fresh(povm) ==
    [povm |-> povm, pm |-> <<>>, lim |-> <<>>, pm_made |-> 0, lim_made |-> 0,
     asked |-> <<>>]

Access(o, value) == [obj |-> o, value |-> value]

\* Base.probability_map
ProbabilityMap(o) ==
    IF o.pm # <<>> THEN Access(o, o.pm[1])
    ELSE Access([o EXCEPT !.pm = <<Conj(o.povm.elements)>>,
                          !.pm_made = @ + 1],
                Conj(o.povm.elements))

\* GetLinearInversionMap computing the map anew for a new rcond
GetLinearInversionMapPerRcond(o, rcond) ==
    IF o.lim # <<>> /\ o.lim[1].rcond = rcond
    THEN Access([o EXCEPT !.asked = Append(@, rcond)], o.lim[1])
    ELSE Access([ProbabilityMap(o).obj EXCEPT
                    !.lim = <<Pinv(ProbabilityMap(o).value, rcond)>>,
                    !.lim_made = @ + 1, !.asked = Append(@, rcond)],
                Pinv(ProbabilityMap(o).value, rcond))

\* Base.get_linear_inversion_map
GetLinearInversionMap(o, rcond) ==
    IF o.lim # <<>>
    THEN Access([o EXCEPT !.asked = Append(@, rcond)], o.lim[1])
    ELSE Access([ProbabilityMap(o).obj EXCEPT
                    !.lim = <<Pinv(ProbabilityMap(o).value, rcond)>>,
                    !.lim_made = @ + 1, !.asked = Append(@, rcond)],
                Pinv(ProbabilityMap(o).value, rcond))

InitMemo ==
    /\ objs \in {<<Fresh(LocalPovm(kind, d))>> : kind \in {"X", "Y", "Z"},
                                                d \in Dims}
               \cup {<<Fresh(PauliGenInit(d, <<"X", "Y">>, <<Half, Half>>))>> :
                       d \in Dims}
    /\ clsPovms = <<"X", "Y">> /\ clsWeights = <<Half, Half>>
    /\ mpp = <<>> /\ lst = NoList /\ call = NoCall /\ gen = NoGen

\* the number of accesses made so far
Accesses == IF call = NoCall THEN 0 ELSE call.nr

ReadProbabilityMap ==
    /\ Accesses < MaxAccesses
    /\ \E r \in {ProbabilityMap(objs[1])} :
          /\ objs' = <<r.obj>>
          /\ call' = [op |-> "probability_map", nr |-> Accesses + 1,
                      res |-> r.value]
    /\ UNCHANGED <<clsPovms, clsWeights, structVars, gen>>

CallGetLinearInversionMap(rcond) ==
    /\ Accesses < MaxAccesses
    /\ \E r \in {GetLinearInversionMap(objs[1], rcond)} :
          /\ objs' = <<r.obj>>
          /\ call' = [op |-> "get_linear_inversion_map", nr |-> Accesses + 1,
                      res |-> r.value]
    /\ UNCHANGED <<clsPovms, clsWeights, structVars, gen>>

\* the property linear_inversion_map: the getter with its default rcond
ReadLinearInversionMap ==
    /\ Accesses < MaxAccesses
    /\ \E r \in {GetLinearInversionMap(objs[1], DefaultRcond)} :
          /\ objs' = <<r.obj>>
          /\ call' = [op |-> "linear_inversion_map", nr |-> Accesses + 1,
                      res |-> r.value]
    /\ UNCHANGED <<clsPovms, clsWeights, structVars, gen>>

NextMemo ==
    \/ ReadProbabilityMap
    \/ \E rcond \in Rconds : CallGetLinearInversionMap(rcond)
    \/ ReadLinearInversionMap

----------------------------------------------------------------------------
(* Claims about the memoized maps *)

----------------------------------------------------------------------------
(* Combined estimators: MPPovm._estfun_from_estimator,                     *)
(* MPPovmList._estfun_from_estimator and MPPovmList.estfun_from.  An       *)
(* indicator function is the record of what its closure holds (support and *)
(* out).  Every appended function and coefficient also carries the match   *)
(* it was appended for (member of self, position in other, my_out, out),   *)
(* which the code does not store.  Members and positions count from 1.     *)

\* the index tuples in S in the order of the dictionary
RECURSIVE InOrder(_)
InOrder(S) ==
    IF S = {} THEN <<>>
    ELSE LET x == CHOOSE y \in S : \A z \in S : LexLeq(y, z)
         IN  <<x>> \o InOrder(S \ {x})

\* np.argwhere(matches)
Argwhere(match) == InOrder({ix \in DOMAIN match : match[ix]})

\* the matches of member k of self with other.mpps[pos], as the inner loop
\* meets them
MatchesAt(k, pos, n_nsout, fm) ==
    LET found == Argwhere(fm.match)
    IN  [i \in 1..Len(found) |->
           [member |-> k, pos |-> pos,
            my_out |-> SubSeq(found[i], 1, n_nsout),
            out |-> SubSeq(found[i], n_nsout + 1, Len(found[i])),
            prefactor |-> fm.prefactors[found[i]]]]

\* the matches with the first `last` members of other, in the order of the
\* lists fun_mpp, fun_myout and fun_coeff
RECURSIVE MatchesUpTo(_, _, _, _)
MatchesUpTo(k, last, n_nsout, fms) ==
    IF last = 0 THEN <<>>
    ELSE MatchesUpTo(k, last - 1, n_nsout, fms)
         \o MatchesAt(k, last, n_nsout, fms[last].value)

\* myout_n_samples[my_out] after the first loop
MyoutNSamples(found, n_samples, my_out) ==
    SumOver({i \in 1..Len(found) : found[i].my_out = my_out},
            [i \in 1..Len(found) |-> n_samples[found[i].pos]])

\* the match an entry of est_funs or est_coeff was appended for
MatchOf(x) == <<x.member, x.pos, x.my_out, x.out>>

\* lambda s, out=out[None, :]: (s[:, support] == out).all(1)
Indicator(support, x) == [support |-> support, out |-> x.out, of |-> MatchOf(x)]

\* coeff[my_out] * n_sam * prefactors[tuple(outcomes)]
FunCoeff(coeff, n_samples, x) ==
    XMul(XMul(coeff[x.my_out], Q(n_samples[x.pos], 1)), x.prefactor)

\* the division that would leave the sample-count weight out
CompleteAverageSkipped(c, n) == c

\* c / myout_n_samples[myout]
CompleteAverage(c, n) == XDiv(c, Q(n, 1))

\* the coefficients of one call appended in front of the list
AppendCoeffsInFront(est_coeff_pos, new) == new \o est_coeff_pos

\* est_coeff[pos].append(...) for the entries of one call, in their order
AppendCoeffs(est_coeff_pos, new) == est_coeff_pos \o new

\* MPPovm._estfun_from_estimator for member k of the list: the outcome and
\* the two output parameters as the call leaves them; fms[pos] is the result
\* of self.find_matching_elements(other.mpps[pos])
EstfunFromEstimator(est_coeff, est_funs, self, k, other, n_samples, coeff, fms) ==
    LET support == Support(Outdims(self))
        n_nsout == Len(Nsoutdims(Outdims(self)))
        paired == Min({Len(other), Len(n_samples)})
        failed == {pos \in 1..paired : fms[pos].outcome # "ok"}
        last == IF failed = {} THEN paired ELSE Min(failed) - 1
        found == MatchesUpTo(k, last, n_nsout, fms)
        funs == [pos \in 1..Len(est_funs) |->
                   est_funs[pos] \o
                   [i \in 1..Len(SelectSeq(found, LAMBDA x : x.pos = pos)) |->
                      Indicator(support,
                                SelectSeq(found, LAMBDA x : x.pos = pos)[i])]]
        coeffs == [pos \in 1..Len(est_coeff) |->
                     AppendCoeffs(est_coeff[pos],
                       [i \in 1..Len(SelectSeq(found, LAMBDA x : x.pos = pos)) |->
                          [c |-> CompleteAverage(
                                   FunCoeff(coeff, n_samples,
                                     SelectSeq(found, LAMBDA x : x.pos = pos)[i]),
                                   MyoutNSamples(found, n_samples,
                                     SelectSeq(found, LAMBDA x : x.pos = pos)[i].my_out)),
                           of |-> MatchOf(SelectSeq(found,
                                                    LAMBDA x : x.pos = pos)[i])]])]
    IN  IF DOMAIN coeff # Tuples(Nsoutdims(Outdims(self)))
        THEN [outcome |-> "AssertionError",
              est_coeff |-> est_coeff, est_funs |-> est_funs]
        ELSE IF failed # {}
        THEN [outcome |-> fms[Min(failed)].outcome,
              est_coeff |-> est_coeff, est_funs |-> funs]
        ELSE [outcome |-> "ok", est_coeff |-> coeffs, est_funs |-> funs]

\* fun(samples) of an indicator function, as a table over the rows
IndicatorTable(member, fun) ==
    [row \in Tuples(Nsoutdims(Outdims(member))) |->
        IF [j \in 1..Len(fun.support) |-> row[fun.support[j] + 1]] = fun.out
        THEN 1 ELSE 0]

\* mpp.est_fun(np.array(c, float), f, s, eps=eps) on indicator functions
EstFunOfIndicators(member, c, f, s, eps) ==
    IF BadArguments(member, <<Coeff("f", [i \in 1..Len(c) |-> c[i].c])>>, f, s, <<>>)
    THEN Raise("AssertionError")
    ELSE IF \E i \in 1..Len(f) : \E j \in 1..Len(f[i].support) :
               f[i].support[j] >= Len(Nsoutdims(Outdims(member)))
    THEN Raise("IndexError")
    ELSE EstFun(member, <<Coeff("f", [i \in 1..Len(c) |-> c[i].c])>>,
                [i \in 1..Len(f) |-> IndicatorTable(member, f[i])], s, <<>>, eps)

\* the second half of estfun_from: est_fun member by member, then the sums
EstfunFromSums(other, est_coeff, funs, samples, eps) ==
    LET each == [pos \in 1..Len(other) |->
                   EstFunOfIndicators(other[pos], est_coeff[pos], funs[pos],
                                      samples[pos], eps)]
        failed == {pos \in 1..Len(other) : each[pos].outcome # "ok"}
    IN  IF failed # {} THEN each[Min(failed)]
        ELSE IF Len(other) = 0 THEN Raise("ValueError")
        ELSE Ok([est |-> XSum(Len(other), [pos \in 1..Len(other) |->
                                              each[pos].value.est]),
                 var |-> XSum(Len(other), [pos \in 1..Len(other) |->
                                              each[pos].value.var])])

----------------------------------------------------------------------------
(* The combination specification: MPPovmList._estfun_from_estimator is     *)
(* called directly or by estfun_from and takes the members of self one     *)
(* step at a time                                                          *)

\* the members of the lists: single-site POVMs and one with an unmeasured site
CombPovms ==
    {FromKinds(c) : c \in {<<"X">>, <<"XZ">>, <<"XX">>, <<"eye", "X">>}}

\* the lists: one or two single-site members, or the member of two sites
CombLists ==
    {l \in {<<a>> : a \in CombPovms} \cup
           {<<a, b>> : a \in CombPovms, b \in CombPovms} :
        \A k \in 1..Len(l) : Len(l[k]) = Len(l[1])}

\* the lists other of estfun_from
EstfunOthers ==
    {<<>>, <<FromKinds(<<"X">>)>>, <<FromKinds(<<"XZ">>)>>,
     <<FromKinds(<<"X">>), FromKinds(<<"X">>)>>,
     <<FromKinds(<<"eye", "X">>)>>}

\* find_matching_elements of every pair of members
PairMatches ==
    [a \in CombPovms, b \in CombPovms |-> FindMatchingElements(a, b, <<>>)]

\* a coefficient array of the shape dims: 1, 2, ... along the last axis
Ramp(dims) ==
    [o \in Tuples(dims) |-> Q(IF o = <<>> THEN 1 ELSE o[Len(o)] + 1, 1)]

\* coeff for the list self: an array of the right shape for every member, the
\* same with one member's array of another shape, or one array too few
CoeffLists(self) ==
    {[k \in 1..Len(self) |-> Ramp(Nsoutdims(Outdims(self[k])))]} \cup
    {[k \in 1..Len(self) |->
        Ramp(IF k = Len(self) THEN <<3>> ELSE Nsoutdims(Outdims(self[k])))]} \cup
    {[k \in 1..(Len(self) - 1) |-> Ramp(Nsoutdims(Outdims(self[k])))]}

\* n_samples for the list other, or one number too few
NSamplesArgs(other) ==
    [1..Len(other) -> 0..MaxSamples] \cup [1..(Len(other) - 1) -> {MaxSamples}]

Pending == [outcome |-> "pending", value |-> <<>>]

InitComb ==
    /\ gen = NoGen
    /\ call = NoCall
    /\ mpp = <<>> /\ lst = NoList
    /\ objs = <<>> /\ clsPovms = <<"X", "Y">> /\ clsWeights = <<Half, Half>>

\* the entry of MPPovmList._estfun_from_estimator, lines 902-905
Entered(op, self, other, coeff, n_samples, samples, eps) ==
    [op |-> op, self |-> self, other |-> other, coeff |-> coeff,
     n_samples |-> n_samples, samples |-> samples, eps |-> eps,
     k |-> 0, at |-> "loop",
     est_coeff |-> [pos \in 1..Len(other) |-> <<>>],
     est_funs |-> [pos \in 1..Len(other) |-> <<>>],
     res |-> IF Len(n_samples) # Len(other) \/ Len(coeff) # Len(self)
             THEN Raise("AssertionError") ELSE Pending]

CallListEstfunFromEstimator(self, other, coeff, n_samples) ==
    /\ call' = Entered("list._estfun_from_estimator", self, other, coeff,
                       n_samples, <<>>, Q(1, 100))
    /\ gen' = NoGen
    /\ UNCHANGED <<structVars, localVars>>

CallEstfunFrom(self, other, coeff, samples, eps) ==
    /\ call' = Entered("list.estfun_from", self, other, coeff,
                       [pos \in 1..Len(samples) |-> Len(samples[pos])],
                       samples, eps)
    /\ gen' = NoGen
    /\ UNCHANGED <<structVars, localVars>>

InCombination ==
    /\ call.op \in {"list._estfun_from_estimator", "list.estfun_from"}
    /\ call.res = Pending

\* one round of the loop of lines 906-908
AccumulateMember ==
    /\ InCombination
    /\ call.k < Len(call.self)
    /\ \E r \in {EstfunFromEstimator(
                   call.est_coeff, call.est_funs, call.self[call.k + 1],
                   call.k + 1, call.other, call.n_samples,
                   call.coeff[call.k + 1],
                   [pos \in 1..Len(call.other) |->
                      PairMatches[call.self[call.k + 1], call.other[pos]]])} :
          call' = [call EXCEPT !.k = @ + 1,
                               !.est_coeff = r.est_coeff,
                               !.est_funs = r.est_funs,
                               !.res = IF r.outcome = "ok" THEN Pending
                                       ELSE Raise(r.outcome)]
    /\ UNCHANGED <<gen, structVars, localVars>>

\* return est_coeff, est_funs
ReturnEstimator ==
    /\ InCombination
    /\ call.op = "list._estfun_from_estimator"
    /\ call.k = Len(call.self)
    /\ call' = [call EXCEPT !.at = "return",
                             !.res = Ok(<<call.est_coeff, call.est_funs>>)]
    /\ UNCHANGED <<gen, structVars, localVars>>

\* lines 928-931 of estfun_from
ReturnEstfunFrom ==
    /\ InCombination
    /\ call.op = "list.estfun_from"
    /\ call.k = Len(call.self)
    /\ call' = [call EXCEPT !.at = "return",
                             !.res = EstfunFromSums(call.other, call.est_coeff,
                                                    call.est_funs, call.samples,
                                                    call.eps)]
    /\ UNCHANGED <<gen, structVars, localVars>>

NextComb ==
    \/ /\ Idle
       /\ \E self \in CombLists, other \in CombLists :
             \E coeff \in CoeffLists(self), n_samples \in NSamplesArgs(other) :
                CallListEstfunFromEstimator(self, other, coeff, n_samples)
    \/ /\ Idle
       /\ \E self \in CombLists, other \in EstfunOthers :
             \E coeff \in CoeffLists(self),
                samples \in SamplesFor(other, Len(other)) :
                CallEstfunFrom(self, other, coeff, samples, Q(1, 100))
    \/ AccumulateMember
    \/ ReturnEstimator
    \/ ReturnEstfunFrom

----------------------------------------------------------------------------
(* Claims about the combined estimators *)

\* a call of MPPovmList._estfun_from_estimator that has not failed
Combining ==
    /\ call.op \in {"list._estfun_from_estimator", "list.estfun_from"}
    /\ call.at = "return" \/ call.res = Pending

\* the matches (pos, index tuple) of outcome o of member k of self over all
\* members of other
MatchesOfOutcome(k, o) ==
    {p \in UNION {{<<pos, ix>> :
                     ix \in DOMAIN PairMatches[call.self[k],
                                               call.other[pos]].value.match} :
                  pos \in 1..Len(call.other)} :
        /\ PairMatches[call.self[k], call.other[p[1]]].value.match[p[2]]
        /\ SubSeq(p[2], 1, Len(o)) = o}

\* N_o: the sum of n_samples[pos] over all matches of o
NOfOutcome(k, o) ==
    SumOver(MatchesOfOutcome(k, o),
            [p \in MatchesOfOutcome(k, o) |-> call.n_samples[p[1]]])

\* the prefactor of the match an entry was appended for
PrefactorOf(e) ==
    PairMatches[call.self[e.of[1]], call.other[e.of[2]]]
       .value.prefactors[e.of[3] \o e.of[4]]

\* the sum of the sample-count weights n_samples[pos] / N_o of the
\* contributions to o
ShareSum(k, o) ==
    IF NOfOutcome(k, o) = 0 THEN NaN
    ELSE QSumOver(MatchesOfOutcome(k, o),
                  [p \in MatchesOfOutcome(k, o) |->
                     Q(call.n_samples[p[1]], NOfOutcome(k, o))])

\* the coefficients appended for outcome o of member k, each divided by the
\* prefactor of its match, added up: the factor of p_self(o) in the
\* expectation of the combined estimator
ExpectedFactor(k, o) ==
    LET at == {q \in UNION {{<<pos, i>> : i \in 1..Len(call.est_coeff[pos])} :
                              pos \in 1..Len(call.est_coeff)} :
                 /\ call.est_coeff[q[1]][q[2]].of[1] = k
                 /\ call.est_coeff[q[1]][q[2]].of[3] = o}
        term == [q \in at |-> XDiv(call.est_coeff[q[1]][q[2]].c,
                                   PrefactorOf(call.est_coeff[q[1]][q[2]]))]
    IN  IF \E q \in at : term[q] = NaN THEN NaN ELSE QSumOver(at, term)

\* every appended coefficient is coeff[o] * prefactor[o, j] * n_samples[pos]
\* / N_o
CoefficientsWeighted ==
    \A pos \in 1..Len(call.est_coeff) : \A i \in 1..Len(call.est_coeff[pos]) :
       \A e \in {call.est_coeff[pos][i]} :
          e.c = XDiv(XMul(XMul(call.coeff[e.of[1]][e.of[3]], PrefactorOf(e)),
                          Q(call.n_samples[pos], 1)),
                     Q(NOfOutcome(e.of[1], e.of[3]), 1))

\* the outcomes of the members of self taken so far that some member of
\* other matches
MatchedOutcomes ==
    {ko \in UNION {{<<k, o>> : o \in DOMAIN call.coeff[k]} : k \in 1..call.k} :
        MatchesOfOutcome(ko[1], ko[2]) # {}}

\* C28 as stated: in _estfun_from_estimator, for every outcome o of self
\* matched by at least one element over all members of other, the
\* coefficient appended for a match (pos, o, j) is coeff[o] * prefactor[o, j]
\* * n_samples[pos] / N_o, the sample-count weights of the contributions to
\* o sum to exactly 1 and the combined estimator is unbiased for
\* coeff[o] * p_self(o)
C28_WeightsSumToOne ==
    Combining =>
       /\ CoefficientsWeighted
       /\ \A ko \in MatchedOutcomes :
             /\ ShareSum(ko[1], ko[2]) = QOne
             /\ ExpectedFactor(ko[1], ko[2]) = call.coeff[ko[1]][ko[2]]

\* C28: the coefficient appended for a match (pos, o, j) is coeff[o] *
\* prefactor[o, j] * n_samples[pos] / N_o; when N_o > 0 the sample-count
\* weights of the contributions to o sum to exactly 1 and the coefficients
\* divided by their prefactors sum to coeff[o]; when N_o = 0 (no member that
\* matches o has samples) every coefficient appended for o is NaN
C28_WeightsSumToOneGivenSamples ==
    Combining =>
       /\ CoefficientsWeighted
       /\ \A ko \in MatchedOutcomes :
             IF NOfOutcome(ko[1], ko[2]) > 0
             THEN /\ ShareSum(ko[1], ko[2]) = QOne
                  /\ ExpectedFactor(ko[1], ko[2]) = call.coeff[ko[1]][ko[2]]
             ELSE \A pos \in 1..Len(call.est_coeff) :
                     \A i \in 1..Len(call.est_coeff[pos]) :
                        (/\ call.est_coeff[pos][i].of[1] = ko[1]
                         /\ call.est_coeff[pos][i].of[3] = ko[2])
                        => call.est_coeff[pos][i].c = NaN

\* X estimated from X with one sample and from the halved X of XZ with two
C28_Witness ==
    /\ call.op = "list._estfun_from_estimator" /\ call.at = "return"
    /\ call.self = <<FromKinds(<<"X">>)>>
    /\ call.other = <<FromKinds(<<"X">>), FromKinds(<<"XZ">>)>>
    /\ call.n_samples = <<1, 2>>
    /\ Len(call.est_coeff[2]) = 2
    /\ call.est_coeff[1][1].c = Q(1, 3)
    /\ call.est_coeff[2][1].c = Q(4, 3)

\* an outcome whose only matches have no samples
C28_WitnessNoSamples ==
    /\ Combining /\ call.at = "return"
    /\ \E ko \in MatchedOutcomes : NOfOutcome(ko[1], ko[2]) = 0

\* C29: after MPPovmList._estfun_from_estimator has accumulated the
\* contributions of any number of members of self, est_coeff[pos] and
\* est_funs[pos] have the same length for every pos and the i-th coefficient
\* belongs to the match of the i-th function, so est_fun never fails on
\* len(coeff) = len(funs) in estfun_from
C29_CoefficientsPaired ==
    Combining =>
       /\ \A pos \in 1..Len(call.other) :
             /\ Len(call.est_coeff[pos]) = Len(call.est_funs[pos])
             /\ \A i \in 1..Len(call.est_coeff[pos]) :
                   /\ call.est_coeff[pos][i].of = call.est_funs[pos][i].of
                   /\ call.est_funs[pos][i].out = call.est_funs[pos][i].of[4]
       /\ (call.op = "list.estfun_from" /\ call.at = "return")
          => call.res.outcome # "AssertionError"

\* two members of self have contributed to the same member of other
C29_Witness ==
    /\ Combining /\ call.at = "return" /\ call.res.outcome = "ok"
    /\ call.op = "list.estfun_from"
    /\ \E pos \in 1..Len(call.other) :
          /\ Len(call.est_coeff[pos]) >= 3
          /\ call.est_coeff[pos][1].of[1] = 1
          /\ call.est_coeff[pos][Len(call.est_coeff[pos])].of[1] = 2

----------------------------------------------------------------------------
(* Specifications *)

SpecStruct == InitStruct /\ [][NextStruct]_vars

SpecLocal == InitLocal /\ [][NextLocal]_vars

SpecMeasure == InitMeasure /\ [][NextMeasure]_vars

SpecSampling == InitSampling /\ [][NextSampling]_vars

SpecCal == InitCal /\ [][NextCal]_vars
SpecEst == InitEst /\ [][NextEst]_vars
SpecMemo == InitMemo /\ [][NextMemo]_vars
SpecComb == InitComb /\ [][NextComb]_vars

====
